---------------------------- MODULE Spec2Model ----------------------------
(***************************************************************************)
(* Rule engines of the AI tutor backend.                                   *)
(*                                                                         *)
(* Spec       the achievement evaluator (check_and_award_achievements) as  *)
(*            a pure function of trigger event, progress snapshot and      *)
(*            already-earned badge list.                                   *)
(* SpecStore  concurrent achievement triggers of one student against the   *)
(*            profile store (DynamoDBService.update_student_profile).      *)
(* SpecCatalog  the achievement evaluator on a catalog in which the lookup *)
(*            of one definition fails.                                     *)
(* SpecLevels the level thresholds: calculate_xp_for_level and the         *)
(*            LEVEL_XP_THRESHOLDS table.                                   *)
(* SpecSection  generate_section_content: the adaptive difficulty and      *)
(*            skill tags handed to the lesson and quiz generators.         *)
(* SpecPlan   generate_lesson_plan on every kind of Content Generator      *)
(*            response.                                                    *)
(* SpecProfile  every operation on the profile store, on a student whose   *)
(*            item may already hold experience points.                     *)
(* SpecAnalyzer  analyze_learning_progress on windows of lesson and quiz   *)
(*            records.                                                     *)
(* SpecFrame  check_and_award_achievements on the objects it is handed:    *)
(*            the snapshot, the earned list and the catalog after a call.  *)
(* SpecFlow   the request handlers diagnostic_complete, section_complete   *)
(*            and request_section of one student against the profile store *)
(*            and the quiz results table.                                  *)
(***************************************************************************)
EXTENDS Integers, Sequences, FiniteSets, TLC

VARIABLES
    trigger_event,          \* argument of check_and_award_achievements
    current_progress,       \* argument: dict of progress counters
    already_earned_badges,  \* argument: list of achievement type strings
    newly_unlocked,         \* return value of the last call
    pc,                     \* "input", "returned", "rechecked", "raised"
    students_table,         \* profile store: the item of the one student
    handlers,               \* concurrent trigger handlers of that student
    failed_lookups,         \* achievement types whose definition lookup fails
    level,                  \* argument of calculate_xp_for_level
    xp_for_level,           \* <<value>> returned by calculate_xp_for_level, <<>> before
    xp_threshold,           \* <<LEVEL_XP_THRESHOLDS[level]>> once read, <<>> before
    lesson_plan,            \* argument of generate_section_content
    section_index,          \* argument: which section to generate
    previous_section_performance,   \* argument: dict or None
    generator_calls,        \* calls made to the lesson and quiz generators
    section_content,        \* what generate_section_content returned or raised
    diagnostic_results,     \* argument of generate_lesson_plan
    plan_response,          \* what bedrock_client.generate and json.loads yield
    quiz_results_table,     \* quiz results store: items by quiz_result_id
    clock,                  \* int(datetime.now().timestamp()) of the last request
    last_response,          \* what the last request handler returned
    recent_lessons,         \* lesson records handed to analyze_learning_progress
    recent_quizzes,         \* quiz records handed to analyze_learning_progress
    progress_analysis,      \* the ProgressAnalysis it returned
    call_arguments,         \* copies of the objects handed to the evaluator
    call_objects            \* the same objects once the call is over

evaluator_vars == <<trigger_event, current_progress, already_earned_badges,
                    newly_unlocked, pc>>

store_vars == <<students_table, handlers>>

catalog_vars == <<failed_lookups>>

leveling_vars == <<level, xp_for_level, xp_threshold>>

section_vars == <<lesson_plan, section_index, previous_section_performance,
                  generator_calls, section_content>>

plan_vars == <<diagnostic_results, plan_response>>

flow_vars == <<quiz_results_table, clock, last_response>>

analyzer_vars == <<recent_lessons, recent_quizzes, progress_analysis>>

frame_vars == <<call_arguments, call_objects>>

\* the variables of the other engines
other_vars == <<failed_lookups, level, xp_for_level, xp_threshold,
                lesson_plan, section_index, previous_section_performance,
                generator_calls, section_content,
                diagnostic_results, plan_response,
                quiz_results_table, clock, last_response,
                recent_lessons, recent_quizzes, progress_analysis,
                call_arguments, call_objects>>

vars == <<trigger_event, current_progress, already_earned_badges,
          newly_unlocked, pc, students_table, handlers, failed_lookups,
          level, xp_for_level, xp_threshold,
          lesson_plan, section_index, previous_section_performance,
          generator_calls, section_content,
          diagnostic_results, plan_response,
          quiz_results_table, clock, last_response,
                recent_lessons, recent_quizzes, progress_analysis,
                call_arguments, call_objects>>

\* ---------------------------------------------------------------------
\* AchievementType (models/constants.py)
\* ---------------------------------------------------------------------
AchievementType ==
    [WORD_SPROUT |-> "word_sprout_10",
     WORD_COLLECTOR |-> "word_collector_50",
     WORD_WIZARD |-> "word_wizard_100",
     WORD_EXPERT |-> "word_expert_250",
     VOCABULARY_MASTER |-> "vocabulary_master_500",
     GRAMMAR_ROOKIE |-> "grammar_rookie_first",
     GRAMMAR_GURU |-> "grammar_guru_5",
     GRAMMAR_EXPERT |-> "grammar_expert_10",
     GRAMMAR_MASTER |-> "grammar_master_20",
     FIRST_LESSON |-> "first_lesson",
     BOOKWORM |-> "bookworm_10",
     AVID_READER |-> "avid_reader_25",
     LIBRARY_CARD |-> "library_card_50",
     LITERATURE_LOVER |-> "literature_lover_100",
     READING_CHAMPION |-> "reading_champion_250",
     HOT_STREAK |-> "hot_streak_3",
     DEDICATED_LEARNER |-> "dedicated_learner_7",
     WEEK_WARRIOR |-> "week_warrior_14",
     UNSTOPPABLE |-> "unstoppable_30",
     PERSISTENT_LEGEND |-> "persistent_legend_100",
     QUICK_DRAW |-> "quick_draw",
     SPEED_DEMON |-> "speed_demon_10",
     LIGHTNING_FAST |-> "lightning_fast_50",
     TIME_MASTER |-> "time_master_100",
     SHARPSHOOTER |-> "sharpshooter_90",
     ACE_STUDENT |-> "ace_student_5",
     PERFECTIONIST |-> "perfectionist_100",
     CHAMPION |-> "champion_5",
     FLAWLESS |-> "flawless_20",
     LEVEL_5 |-> "level_5",
     LEVEL_10 |-> "level_10",
     LEVEL_15 |-> "level_15",
     LEVEL_20 |-> "level_20",
     LEVEL_30 |-> "level_30",
     EARLY_BIRD |-> "early_bird",
     NIGHT_OWL |-> "night_owl",
     WEEKEND_WARRIOR |-> "weekend_warrior_4",
     COMEBACK_KID |-> "comeback_kid",
     HELPING_HAND |-> "helping_hand"]
ACHIEVEMENT_DEFINITIONS ==
  <<
    [type |-> AchievementType.WORD_SPROUT, xp_reward |-> 50, rarity |-> "common",
     category |-> "vocabulary", criteria |-> [words_learned |-> 10]],
    [type |-> AchievementType.WORD_COLLECTOR, xp_reward |-> 150, rarity |-> "uncommon",
     category |-> "vocabulary", criteria |-> [words_learned |-> 50]],
    [type |-> AchievementType.WORD_WIZARD, xp_reward |-> 300, rarity |-> "rare",
     category |-> "vocabulary", criteria |-> [words_learned |-> 100]],
    [type |-> AchievementType.WORD_EXPERT, xp_reward |-> 600, rarity |-> "epic",
     category |-> "vocabulary", criteria |-> [words_learned |-> 250]],
    [type |-> AchievementType.VOCABULARY_MASTER, xp_reward |-> 1000, rarity |-> "legendary",
     category |-> "vocabulary", criteria |-> [words_learned |-> 500]],
    [type |-> AchievementType.GRAMMAR_ROOKIE, xp_reward |-> 75, rarity |-> "common",
     category |-> "grammar", criteria |-> [perfect_grammar_quizzes |-> 1]],
    [type |-> AchievementType.GRAMMAR_GURU, xp_reward |-> 250, rarity |-> "rare",
     category |-> "grammar", criteria |-> [perfect_grammar_quizzes |-> 5]],
    [type |-> AchievementType.GRAMMAR_EXPERT, xp_reward |-> 500, rarity |-> "epic",
     category |-> "grammar", criteria |-> [perfect_grammar_quizzes |-> 10]],
    [type |-> AchievementType.GRAMMAR_MASTER, xp_reward |-> 1000, rarity |-> "legendary",
     category |-> "grammar", criteria |-> [perfect_grammar_quizzes |-> 20]],
    [type |-> AchievementType.FIRST_LESSON, xp_reward |-> 25, rarity |-> "common",
     category |-> "reading", criteria |-> [lessons_completed |-> 1]],
    [type |-> AchievementType.BOOKWORM, xp_reward |-> 100, rarity |-> "uncommon",
     category |-> "reading", criteria |-> [lessons_completed |-> 10]],
    [type |-> AchievementType.AVID_READER, xp_reward |-> 200, rarity |-> "uncommon",
     category |-> "reading", criteria |-> [lessons_completed |-> 25]],
    [type |-> AchievementType.LIBRARY_CARD, xp_reward |-> 400, rarity |-> "rare",
     category |-> "reading", criteria |-> [lessons_completed |-> 50]],
    [type |-> AchievementType.LITERATURE_LOVER, xp_reward |-> 800, rarity |-> "epic",
     category |-> "reading", criteria |-> [lessons_completed |-> 100]],
    [type |-> AchievementType.READING_CHAMPION, xp_reward |-> 1500, rarity |-> "legendary",
     category |-> "reading", criteria |-> [lessons_completed |-> 250]],
    [type |-> AchievementType.HOT_STREAK, xp_reward |-> 75, rarity |-> "uncommon",
     category |-> "streak", criteria |-> [consecutive_days |-> 3]],
    [type |-> AchievementType.DEDICATED_LEARNER, xp_reward |-> 200, rarity |-> "rare",
     category |-> "streak", criteria |-> [consecutive_days |-> 7]],
    [type |-> AchievementType.WEEK_WARRIOR, xp_reward |-> 400, rarity |-> "epic",
     category |-> "streak", criteria |-> [consecutive_days |-> 14]],
    [type |-> AchievementType.UNSTOPPABLE, xp_reward |-> 1000, rarity |-> "legendary",
     category |-> "streak", criteria |-> [consecutive_days |-> 30]],
    [type |-> AchievementType.PERSISTENT_LEGEND, xp_reward |-> 2500, rarity |-> "legendary",
     category |-> "streak", criteria |-> [consecutive_days |-> 100]],
    [type |-> AchievementType.QUICK_DRAW, xp_reward |-> 50, rarity |-> "common",
     category |-> "speed", criteria |-> [fast_answers |-> 1]],
    [type |-> AchievementType.SPEED_DEMON, xp_reward |-> 150, rarity |-> "uncommon",
     category |-> "speed", criteria |-> [fast_answers |-> 10]],
    [type |-> AchievementType.LIGHTNING_FAST, xp_reward |-> 400, rarity |-> "rare",
     category |-> "speed", criteria |-> [fast_answers |-> 50]],
    [type |-> AchievementType.TIME_MASTER, xp_reward |-> 800, rarity |-> "legendary",
     category |-> "speed", criteria |-> [fast_answers |-> 100]],
    [type |-> AchievementType.SHARPSHOOTER, xp_reward |-> 75, rarity |-> "common",
     category |-> "accuracy", criteria |-> [high_score_quizzes |-> 1, threshold |-> 90]],
    [type |-> AchievementType.ACE_STUDENT, xp_reward |-> 250, rarity |-> "rare",
     category |-> "accuracy", criteria |-> [high_score_quizzes |-> 5, threshold |-> 90]],
    [type |-> AchievementType.PERFECTIONIST, xp_reward |-> 200, rarity |-> "rare",
     category |-> "accuracy", criteria |-> [perfect_quizzes |-> 1]],
    [type |-> AchievementType.CHAMPION, xp_reward |-> 600, rarity |-> "epic",
     category |-> "accuracy", criteria |-> [perfect_quizzes |-> 5]],
    [type |-> AchievementType.FLAWLESS, xp_reward |-> 1500, rarity |-> "legendary",
     category |-> "accuracy", criteria |-> [perfect_quizzes |-> 20]],
    [type |-> AchievementType.LEVEL_5, xp_reward |-> 100, rarity |-> "uncommon",
     category |-> "level", criteria |-> [level |-> 5]],
    [type |-> AchievementType.LEVEL_10, xp_reward |-> 250, rarity |-> "rare",
     category |-> "level", criteria |-> [level |-> 10]],
    [type |-> AchievementType.LEVEL_15, xp_reward |-> 500, rarity |-> "epic",
     category |-> "level", criteria |-> [level |-> 15]],
    [type |-> AchievementType.LEVEL_20, xp_reward |-> 800, rarity |-> "epic",
     category |-> "level", criteria |-> [level |-> 20]],
    [type |-> AchievementType.LEVEL_30, xp_reward |-> 2000, rarity |-> "legendary",
     category |-> "level", criteria |-> [level |-> 30]],
    [type |-> AchievementType.EARLY_BIRD, xp_reward |-> 50, rarity |-> "uncommon",
     category |-> "special", criteria |-> [morning_lessons |-> 1]],
    [type |-> AchievementType.NIGHT_OWL, xp_reward |-> 50, rarity |-> "uncommon",
     category |-> "special", criteria |-> [night_lessons |-> 1]],
    [type |-> AchievementType.WEEKEND_WARRIOR, xp_reward |-> 100, rarity |-> "uncommon",
     category |-> "special", criteria |-> [weekend_sessions |-> 4]],
    [type |-> AchievementType.COMEBACK_KID, xp_reward |-> 75, rarity |-> "uncommon",
     category |-> "special", criteria |-> [comeback |-> TRUE]],
    [type |-> AchievementType.HELPING_HAND, xp_reward |-> 50, rarity |-> "common",
     category |-> "special", criteria |-> [achievements_shared |-> 1]]
  >>
\* ---------------------------------------------------------------------
\* Python float arithmetic used by int((current / target) * 100).
\* A positive double is [hi, mid, lo, exp], standing for
\* (hi * 2^36 + mid * 2^18 + lo) * 2^exp with 53 significant bits; the
\* limbs keep every intermediate product inside 32-bit integers.  The
\* operands are integers below 2^13.
\* ---------------------------------------------------------------------
PowersOfTwo ==
    <<1, 2, 4, 8, 16, 32, 64, 128, 256, 512, 1024, 2048, 4096, 8192, 16384,
      32768, 65536, 131072, 262144, 524288, 1048576, 2097152, 4194304,
      8388608, 16777216, 33554432, 67108864, 134217728, 268435456,
      536870912, 1073741824>>

Pow2(n) == PowersOfTwo[n + 1]

Limb == Pow2(18)

RECURSIVE ShiftUp(_, _, _)
ShiftUp(x, bound, k) == IF x * Pow2(k) >= bound THEN k ELSE ShiftUp(x, bound, k + 1)

RECURSIVE ShiftDown(_, _, _)
ShiftDown(x, y, k) == IF y * Pow2(k + 1) > x THEN k ELSE ShiftDown(x, y, k + 1)

FloatZero == [hi |-> 0, mid |-> 0, lo |-> 0, exp |-> 0]

RoundLimbs(hi, mid, lo, up, exp) ==
    LET lo1  == IF up THEN lo + 1 ELSE lo
        mid1 == IF lo1 = Limb THEN mid + 1 ELSE mid
        hi1  == IF mid1 = Limb THEN hi + 1 ELSE hi
    IN  [hi |-> hi1, mid |-> mid1 % Limb, lo |-> lo1 % Limb, exp |-> exp]

TrueDiv(c, t) ==
    IF c = 0 THEN FloatZero
    ELSE
      LET k   == IF c >= t THEN ShiftDown(c, t, 0) ELSE ShiftUp(c, t, 0)
          num == IF c >= t THEN c ELSE c * Pow2(k)
          den == IF c >= t THEN t * Pow2(k) ELSE t
          e   == IF c >= t THEN k ELSE 0 - k
          q2  == (num * Pow2(16)) \div den
          r2  == (num * Pow2(16)) % den
          q1  == (r2 * Limb) \div den
          r1  == (r2 * Limb) % den
          q0  == (r1 * Limb) \div den
          r0  == (r1 * Limb) % den
          up  == (2 * r0 > den) \/ (2 * r0 = den /\ q0 % 2 = 1)
      IN  RoundLimbs(q2, q1, q0, up, e - 52)

FloatMul100(d) ==
    IF d = FloatZero THEN FloatZero
    ELSE
      LET p0raw == 100 * d.lo
          p0    == p0raw % Limb
          p1raw == 100 * d.mid + (p0raw \div Limb)
          p1    == p1raw % Limb
          p2    == 100 * d.hi + (p1raw \div Limb)
          s     == IF p2 >= Pow2(23) THEN 7 ELSE 6
          rem   == p0 % Pow2(s)
          half  == Pow2(s - 1)
          keep  == p0 - rem
          up    == (rem > half) \/ (rem = half /\ (p0 \div Pow2(s)) % 2 = 1)
          lo1   == IF up THEN keep + Pow2(s) ELSE keep
          mid1  == IF lo1 >= Limb THEN p1 + 1 ELSE p1
          hi1   == IF mid1 >= Limb THEN p2 + 1 ELSE p2
      IN  [hi |-> hi1, mid |-> mid1 % Limb, lo |-> lo1 % Limb, exp |-> d.exp]

FloatToInt(d) ==
    LET sh == (0 - d.exp) - 36
    IN  IF d = FloatZero \/ sh > 30 THEN 0 ELSE d.hi \div Pow2(sh)

\* ---------------------------------------------------------------------
\* Python built-ins used by the evaluator
\* ---------------------------------------------------------------------
None == [none |-> TRUE]

EmptyDict == [k \in {} |-> 0]

\* dict.get(key, default)
Get(d, key, default) == IF key \in DOMAIN d THEN d[key] ELSE default

\* x in list
InList(x, list) == \E i \in 1..Len(list) : list[i] = x

\* list.index(x), 0-based
Index(list, x) == (CHOOSE i \in 1..Len(list) : list[i] = x /\ \A j \in 1..(i - 1) : list[j] # x) - 1

Min(a, b) == IF a <= b THEN a ELSE b

\* Strings are sequences of one-character strings.
UpperCase == <<"A","B","C","D","E","F","G","H","I","J","K","L","M",
               "N","O","P","Q","R","S","T","U","V","W","X","Y","Z">>

LowerCase == <<"a","b","c","d","e","f","g","h","i","j","k","l","m",
               "n","o","p","q","r","s","t","u","v","w","x","y","z">>

\* str.lower()
Lower(s) ==
    [i \in 1..Len(s) |->
        IF \E j \in 1..26 : UpperCase[j] = s[i]
        THEN LowerCase[CHOOSE j \in 1..26 : UpperCase[j] = s[i]]
        ELSE s[i]]

\* str.find(sub): lowest 0-based index of sub in s, -1 when absent
Find(s, sub) ==
    LET hits == {i \in 0..(Len(s) - Len(sub)) : SubSeq(s, i + 1, i + Len(sub)) = sub}
    IN  IF hits = {} THEN 0 - 1 ELSE CHOOSE i \in hits : \A j \in hits : i <= j


\* ---------------------------------------------------------------------
\* models/achievement_definitions.py
\* ---------------------------------------------------------------------
\* get_achievement_definition: ACHIEVEMENT_DEFINITIONS.get(type, {})
GetAchievementDefinition(defs, achievement_type) ==
    IF \E i \in 1..Len(defs) : defs[i].type = achievement_type
    THEN defs[CHOOSE i \in 1..Len(defs) : defs[i].type = achievement_type]
    ELSE EmptyDict

\* truth value of a dict
Truthy(d) == DOMAIN d # {}

\* ---------------------------------------------------------------------
\* tools/achievement_tool.py
\* ---------------------------------------------------------------------
\* mutant: the earned list is not consulted
CheckTiersIgnoringEarned(value, tiers, already) ==
    LET Unlocks(tier) == value >= tier[1]
        hit == SelectSeq(tiers, Unlocks)
    IN  [i \in 1..Len(hit) |-> hit[i][2]]

\* mutant: == in place of >=
CheckTiersExactValue(value, tiers, already) ==
    LET Unlocks(tier) == value = tier[1] /\ ~InList(tier[2], already)
        hit == SelectSeq(tiers, Unlocks)
    IN  [i \in 1..Len(hit) |-> hit[i][2]]

\* The pattern  if value >= N and X.value not in already_earned_badges:
\*                  achievements_to_check.append(X)
\* applied to the tiers of one block, in the order the block lists them.
CheckTiers(value, tiers, already) ==
    LET Unlocks(tier) == value >= tier[1] /\ ~InList(tier[2], already)
        hit == SelectSeq(tiers, Unlocks)
    IN  [i \in 1..Len(hit) |-> hit[i][2]]

\* mutant: the 50-word tier unlocks at 51
VocabularyTiersOffByOne ==
    <<
       <<10, AchievementType.WORD_SPROUT>>,
       <<51, AchievementType.WORD_COLLECTOR>>,
       <<100, AchievementType.WORD_WIZARD>>,
       <<250, AchievementType.WORD_EXPERT>>,
       <<500, AchievementType.VOCABULARY_MASTER>>
    >>

VocabularyTiers ==
    <<
       <<10, AchievementType.WORD_SPROUT>>,
       <<50, AchievementType.WORD_COLLECTOR>>,
       <<100, AchievementType.WORD_WIZARD>>,
       <<250, AchievementType.WORD_EXPERT>>,
       <<500, AchievementType.VOCABULARY_MASTER>>
    >>

ReadingTiers ==
    <<
       <<1, AchievementType.FIRST_LESSON>>,
       <<10, AchievementType.BOOKWORM>>,
       <<25, AchievementType.AVID_READER>>,
       <<50, AchievementType.LIBRARY_CARD>>,
       <<100, AchievementType.LITERATURE_LOVER>>,
       <<250, AchievementType.READING_CHAMPION>>
    >>

GrammarTiers ==
    <<
       <<1, AchievementType.GRAMMAR_ROOKIE>>,
       <<5, AchievementType.GRAMMAR_GURU>>,
       <<10, AchievementType.GRAMMAR_EXPERT>>,
       <<20, AchievementType.GRAMMAR_MASTER>>
    >>

StreakTiers ==
    <<
       <<3, AchievementType.HOT_STREAK>>,
       <<7, AchievementType.DEDICATED_LEARNER>>,
       <<14, AchievementType.WEEK_WARRIOR>>,
       <<30, AchievementType.UNSTOPPABLE>>,
       <<100, AchievementType.PERSISTENT_LEGEND>>
    >>

SpeedTiers ==
    <<
       <<1, AchievementType.QUICK_DRAW>>,
       <<10, AchievementType.SPEED_DEMON>>,
       <<50, AchievementType.LIGHTNING_FAST>>,
       <<100, AchievementType.TIME_MASTER>>
    >>

\* mutant: the level block stops at level 20
LevelTiersWithoutThirty ==
    <<
       <<5, AchievementType.LEVEL_5>>,
       <<10, AchievementType.LEVEL_10>>,
       <<15, AchievementType.LEVEL_15>>,
       <<20, AchievementType.LEVEL_20>>
    >>

LevelTiers ==
    <<
       <<5, AchievementType.LEVEL_5>>,
       <<10, AchievementType.LEVEL_10>>,
       <<15, AchievementType.LEVEL_15>>,
       <<20, AchievementType.LEVEL_20>>,
       <<30, AchievementType.LEVEL_30>>
    >>

VocabularyTrigger(event) == event \in {"lesson_completed", "quiz_completed"}

VocabularyChecks(event, progress, already) ==
    IF VocabularyTrigger(event)
    THEN CheckTiers(Get(progress, "total_words_learned", 0), VocabularyTiers, already)
    ELSE <<>>

\* mutant: the reading block shares the vocabulary block's condition
ReadingTriggerWithQuiz(event) == event \in {"lesson_completed", "quiz_completed"}

ReadingTrigger(event) == event = "lesson_completed"

\* mutant: the default of current_level (1) copied to the lessons counter
ReadingChecksDefaultOne(event, progress, already) ==
    IF ReadingTrigger(event)
    THEN CheckTiers(Get(progress, "total_lessons_completed", 1), ReadingTiers, already)
    ELSE <<>>

ReadingChecks(event, progress, already) ==
    IF ReadingTrigger(event)
    THEN CheckTiers(Get(progress, "total_lessons_completed", 0), ReadingTiers, already)
    ELSE <<>>

GrammarTrigger(event, progress) ==
    /\ event = "quiz_perfect"
    /\ Find(Lower(Get(progress, "quiz_topic", <<>>)), <<"g","r","a","m","m","a","r">>) >= 0

GrammarChecks(event, progress, already) ==
    IF GrammarTrigger(event, progress)
    THEN CheckTiers(Get(progress, "perfect_quiz_count", 0), GrammarTiers, already)
    ELSE <<>>

StreakChecks(event, progress, already) ==
    IF event = "daily_streak_updated"
    THEN CheckTiers(Get(progress, "current_streak_days", 0), StreakTiers, already)
    ELSE <<>>

SpeedChecks(event, progress, already) ==
    IF event = "fast_answer"
    THEN CheckTiers(Get(progress, "fast_answer_count", 0), SpeedTiers, already)
    ELSE <<>>

\* mutant: the earned list is not consulted
SharpshooterIgnoringEarned(quiz_score, high_score_quizzes, already) ==
    quiz_score >= 90 /\ high_score_quizzes >= 1

SharpshooterUnlocks(quiz_score, high_score_quizzes, already) ==
    quiz_score >= 90 /\ high_score_quizzes >= 1 /\ ~InList(AchievementType.SHARPSHOOTER, already)

AceStudentUnlocks(high_score_quizzes, already) ==
    high_score_quizzes >= 5 /\ ~InList(AchievementType.ACE_STUDENT, already)

\* mutant: the catalog criterion perfect_quizzes >= 1 gates the unlock too
PerfectionistByCount(quiz_score, perfect_quizzes, already) ==
    /\ quiz_score = 100
    /\ perfect_quizzes >= 1
    /\ ~InList(AchievementType.PERFECTIONIST, already)

PerfectionistUnlocks(quiz_score, perfect_quizzes, already) ==
    quiz_score = 100 /\ ~InList(AchievementType.PERFECTIONIST, already)

ChampionUnlocks(perfect_quizzes, already) ==
    perfect_quizzes >= 5 /\ ~InList(AchievementType.CHAMPION, already)

FlawlessUnlocks(perfect_quizzes, already) ==
    perfect_quizzes >= 20 /\ ~InList(AchievementType.FLAWLESS, already)

AccuracyChecks(event, progress, already) ==
    IF event = "quiz_completed"
    THEN LET quiz_score         == Get(progress, "last_quiz_score", 0)
             high_score_quizzes == Get(progress, "high_score_quiz_count", 0)
             perfect_quizzes    == Get(progress, "perfect_quiz_count", 0)
         IN  (IF SharpshooterUnlocks(quiz_score, high_score_quizzes, already)
                 THEN <<AchievementType.SHARPSHOOTER>> ELSE <<>>)
             \o (IF AceStudentUnlocks(high_score_quizzes, already)
                 THEN <<AchievementType.ACE_STUDENT>> ELSE <<>>)
             \o (IF PerfectionistUnlocks(quiz_score, perfect_quizzes, already)
                 THEN <<AchievementType.PERFECTIONIST>> ELSE <<>>)
             \o (IF ChampionUnlocks(perfect_quizzes, already)
                 THEN <<AchievementType.CHAMPION>> ELSE <<>>)
             \o (IF FlawlessUnlocks(perfect_quizzes, already)
                 THEN <<AchievementType.FLAWLESS>> ELSE <<>>)
    ELSE <<>>

LevelChecks(event, progress, already) ==
    IF event = "level_up"
    THEN CheckTiers(Get(progress, "current_level", 1), LevelTiers, already)
    ELSE <<>>

\* mutant: the reading block runs before the vocabulary block
AchievementsToCheckReadingFirst(event, progress, already) ==
    ReadingChecks(event, progress, already)
    \o VocabularyChecks(event, progress, already)
    \o GrammarChecks(event, progress, already)
    \o StreakChecks(event, progress, already)
    \o SpeedChecks(event, progress, already)
    \o AccuracyChecks(event, progress, already)
    \o LevelChecks(event, progress, already)

\* achievements_to_check after all the blocks have run
AchievementsToCheck(event, progress, already) ==
    VocabularyChecks(event, progress, already)
    \o ReadingChecks(event, progress, already)
    \o GrammarChecks(event, progress, already)
    \o StreakChecks(event, progress, already)
    \o SpeedChecks(event, progress, already)
    \o AccuracyChecks(event, progress, already)
    \o LevelChecks(event, progress, already)

vocabulary_sequence ==
    <<
       AchievementType.WORD_SPROUT,
       AchievementType.WORD_COLLECTOR,
       AchievementType.WORD_WIZARD,
       AchievementType.WORD_EXPERT,
       AchievementType.VOCABULARY_MASTER
    >>

reading_sequence ==
    <<
       AchievementType.FIRST_LESSON,
       AchievementType.BOOKWORM,
       AchievementType.AVID_READER,
       AchievementType.LIBRARY_CARD,
       AchievementType.LITERATURE_LOVER,
       AchievementType.READING_CHAMPION
    >>

KeyError == [raised |-> "KeyError"]

\* int((current / target) * 100) capped at 100
Percentage(current, target) ==
    Min(100, FloatToInt(FloatMul100(TrueDiv(current, target))))

\* One branch of _calculate_progress_to_next: the achievement is in
\* `sequence`, whose tiers are measured by progress[key] against
\* criteria[metric].
ProgressInSequence(current_achievement, progress, sequence, key, metric, defs) ==
    LET current_idx == Index(sequence, current_achievement)
    IN  IF current_idx < Len(sequence) - 1
        THEN LET next_achievement == sequence[current_idx + 2]
                 next_def         == GetAchievementDefinition(defs, next_achievement)
                 current          == Get(progress, key, 0)
             IN  IF "criteria" \notin DOMAIN next_def
                 THEN KeyError
                 ELSE [next_achievement |-> next_achievement,
                       current          |-> current,
                       target           |-> next_def.criteria[metric],
                       percentage       |-> Percentage(current, next_def.criteria[metric])]
        ELSE None

CalculateProgressToNext(current_achievement, progress, earned_badges, defs) ==
    IF InList(current_achievement, vocabulary_sequence)
    THEN ProgressInSequence(current_achievement, progress, vocabulary_sequence,
                            "total_words_learned", "words_learned", defs)
    ELSE IF InList(current_achievement, reading_sequence)
    THEN ProgressInSequence(current_achievement, progress, reading_sequence,
                            "total_lessons_completed", "lessons_completed", defs)
    ELSE None

\* Achievement(...) built for one unlocked type; the instance id and the
\* timestamp are assigned by the caller of this operator.
BuildAchievement(achievement_type, definition, progress, already, defs) ==
    [achievement_type      |-> achievement_type,
     xp_awarded            |-> definition.xp_reward,
     rarity                |-> definition.rarity,
     category              |-> definition.category,
     progress_towards_next |-> CalculateProgressToNext(achievement_type, progress,
                                                       already, defs)]

\* The loop over achievements_to_check: types without a definition are skipped.
CreateAchievements(to_check, progress, already, defs) ==
    LET Defined(t) == Truthy(GetAchievementDefinition(defs, t))
        kept       == SelectSeq(to_check, Defined)
    IN  [i \in 1..Len(kept) |->
            BuildAchievement(kept[i], GetAchievementDefinition(defs, kept[i]),
                             progress, already, defs)]

\* a progress lookup raised while the list was built: the call raises
Raised(achievements) ==
    \E i \in 1..Len(achievements) : achievements[i].progress_towards_next = KeyError

\* check_and_award_achievements: the returned list
CheckAndAwardAchievements(event, progress, already, defs) ==
    CreateAchievements(AchievementsToCheck(event, progress, already),
                       progress, already, defs)


\* ---------------------------------------------------------------------
\* Inputs of the evaluator
\* ---------------------------------------------------------------------
\* keys of current_progress read by the evaluator
ProgressKeys ==
    {"total_words_learned", "total_lessons_completed", "current_streak_days",
     "perfect_quiz_count", "high_score_quiz_count", "fast_answer_count",
     "current_level", "last_quiz_score", "quiz_topic"}

NumericKeys == ProgressKeys \ {"quiz_topic"}

\* score_percentage is a percentage
MaxScore == 100

\* number of keys a snapshot carries; the other keys are absent
MaxKeys == 2

\* values around every threshold the evaluator compares against
ProgressValues(key) ==
    CASE key = "total_words_learned"     -> {9, 10, 29, 49, 50, 55, 99, 100, 249, 250, 499, 500}
      [] key = "total_lessons_completed" -> {0, 1, 9, 10, 24, 25, 49, 50, 99, 100, 249, 250}
      [] key = "current_streak_days"     -> {2, 3, 6, 7, 13, 14, 29, 30, 99, 100}
      [] key = "perfect_quiz_count"      -> {0, 1, 4, 5, 9, 10, 19, 20}
      [] key = "high_score_quiz_count"   -> {0, 1, 4, 5}
      [] key = "fast_answer_count"       -> {0, 1, 9, 10, 49, 50, 99, 100}
      [] key = "current_level"           -> {1, 4, 5, 9, 10, 14, 15, 19, 20, 29, 30}
      [] key = "last_quiz_score"         -> {0, 89, 90, 99, MaxScore}
      [] key = "quiz_topic"              ->
             { <<"g","r","a","m","m","a","r">>,
               <<"B","a","s","i","c"," ","G","R","A","M","M","A","R">>,
               <<"s","p","e","l","l","i","n","g">> }

RECURSIVE Dicts(_)
Dicts(keys) ==
    IF keys = {} THEN {EmptyDict}
    ELSE LET k == CHOOSE k \in keys : TRUE
         IN  {[x \in (DOMAIN d) \cup {k} |-> IF x = k THEN v ELSE d[x]] :
                 d \in Dicts(keys \ {k}), v \in ProgressValues(k)}

Snapshots ==
    UNION {Dicts(keys) : keys \in {ks \in SUBSET ProgressKeys : Cardinality(ks) <= MaxKeys}}

TriggerEvents ==
    {"lesson_completed", "quiz_completed", "quiz_perfect", "daily_streak_updated",
     "fast_answer", "level_up", "session_started"}

EarnedLists ==
    { <<>>,
      <<AchievementType.WORD_SPROUT, AchievementType.BOOKWORM,
        AchievementType.GRAMMAR_ROOKIE, AchievementType.DEDICATED_LEARNER,
        AchievementType.QUICK_DRAW, AchievementType.SHARPSHOOTER,
        AchievementType.CHAMPION, AchievementType.LEVEL_5,
        AchievementType.EARLY_BIRD>> }

\* achievement types of a returned list, in order
Types(achievements) == [i \in 1..Len(achievements) |-> achievements[i].achievement_type]

\* ---------------------------------------------------------------------
\* Spec: calls of check_and_award_achievements
\* ---------------------------------------------------------------------
\* no definition lookup fails: the catalog is the one the module loads
CatalogIntact == failed_lookups = {}

\* no level computation under way
LevelingIdle ==
    /\ level = 1
    /\ xp_for_level = <<>>
    /\ xp_threshold = <<>>

\* no section generation under way
SectionIdle ==
    /\ lesson_plan = None
    /\ section_index = 0
    /\ previous_section_performance = None
    /\ generator_calls = <<>>
    /\ section_content = None

\* no plan generation under way
PlanIdle ==
    /\ diagnostic_results = None
    /\ plan_response = None

\* no request handled yet
FlowIdle ==
    /\ quiz_results_table = EmptyDict
    /\ clock = 0
    /\ last_response = None

\* no analysis asked for yet
AnalyzerIdle ==
    /\ recent_lessons = <<>>
    /\ recent_quizzes = <<>>
    /\ progress_analysis = None

\* no call on tracked objects yet
FrameIdle ==
    /\ call_arguments = None
    /\ call_objects = None

\* the other engines at rest
OthersIdle ==
    /\ CatalogIntact /\ LevelingIdle /\ SectionIdle /\ PlanIdle /\ FlowIdle
    /\ AnalyzerIdle /\ FrameIdle

\* no evaluator call under way, no trigger handler running
EvaluatorIdle ==
    /\ trigger_event = "session_started"
    /\ current_progress = EmptyDict
    /\ already_earned_badges = <<>>
    /\ newly_unlocked = <<>>
    /\ pc = "input"

StoreIdle ==
    /\ students_table = [badges_earned |-> <<>>]
    /\ handlers = <<>>

Init ==
    /\ trigger_event = "session_started"
    /\ current_progress = EmptyDict
    /\ already_earned_badges = <<>>
    /\ newly_unlocked = <<>>
    /\ pc = "input"
    /\ students_table = [badges_earned |-> <<>>]
    /\ handlers = <<>>
    /\ OthersIdle

Call(event, progress, already, return_pc) ==
    LET result == CheckAndAwardAchievements(event, progress, already,
                                            ACHIEVEMENT_DEFINITIONS)
    IN  IF Raised(result)
        THEN /\ newly_unlocked' = <<>>
             /\ pc' = "raised"
        ELSE /\ newly_unlocked' = result
             /\ pc' = return_pc

\* a first call, on any trigger, snapshot and earned list
Check ==
    /\ pc = "input"
    /\ \E event \in TriggerEvents, progress \in Snapshots, already \in EarnedLists :
          /\ trigger_event' = event
          /\ current_progress' = progress
          /\ already_earned_badges' = already
          /\ Call(event, progress, already, "returned")
    /\ UNCHANGED <<store_vars, other_vars>>

\* the caller merges the returned identifiers into the earned list and
\* calls again with the same trigger and snapshot
MergeAndRecheck ==
    /\ pc = "returned"
    /\ newly_unlocked # <<>>
    /\ already_earned_badges' = already_earned_badges \o Types(newly_unlocked)
    /\ Call(trigger_event, current_progress, already_earned_badges', "rechecked")
    /\ UNCHANGED <<trigger_event, current_progress, store_vars, other_vars>>

\* a later call with one counter grown to its next value and the same
\* trigger and earned list
RaiseAndRecheck ==
    /\ pc = "returned"
    /\ \E k \in (DOMAIN current_progress) \cap NumericKeys :
         \E v \in ProgressValues(k) :
            /\ v > current_progress[k]
            /\ \A w \in ProgressValues(k) : w > current_progress[k] => v <= w
            /\ current_progress' = [current_progress EXCEPT ![k] = v]
    /\ Call(trigger_event, current_progress', already_earned_badges, "returned")
    /\ UNCHANGED <<trigger_event, already_earned_badges, store_vars, other_vars>>

Next == Check \/ MergeAndRecheck \/ RaiseAndRecheck

Spec == Init /\ [][Next]_vars

\* ---------------------------------------------------------------------
\* SpecStore: concurrent triggers of one student.  Each handler reads the
\* profile, evaluates the achievements against the badge list it read
\* and writes the merged badge list back.
\* ---------------------------------------------------------------------
\* number of concurrent trigger handlers
MaxTriggers == 2

Handlers == 1..MaxTriggers

StoreEvents == {"lesson_completed", "quiz_completed", "level_up"}

\* counters of the stored profile (StudentProfile fields)
StoreCounters ==
    { [total_words_learned |-> 10, total_lessons_completed |-> 0, current_level |-> 1],
      [total_words_learned |-> 55, total_lessons_completed |-> 1, current_level |-> 5] }

StoreBadges == { <<>>, <<AchievementType.WORD_SPROUT>> }

\* the profile item: counters plus badges_earned
ProfileItem(counters, badges) ==
    [k \in (DOMAIN counters) \cup {"badges_earned"} |->
        IF k = "badges_earned" THEN badges ELSE counters[k]]

\* Achievement objects of one call, with the instance ids the call draws:
\* f"ach-{uuid.uuid4().hex[:8]}" is fresh per object
WithInstanceIds(h, achievements) ==
    [i \in 1..Len(achievements) |->
        [achievement_id   |-> <<h, i>>,
         achievement_type |-> achievements[i].achievement_type,
         xp_awarded       |-> achievements[i].xp_awarded]]

InitStore ==
    /\ \E counters \in StoreCounters, badges \in StoreBadges :
          students_table = ProfileItem(counters, badges)
    /\ handlers \in [Handlers -> [pc : {"start"}, event : StoreEvents,
                                  profile : {EmptyDict}, unlocked : {<<>>}]]
    /\ trigger_event = "session_started"
    /\ current_progress = EmptyDict
    /\ already_earned_badges = <<>>
    /\ newly_unlocked = <<>>
    /\ pc = "input"
    /\ OthersIdle

\* DynamoDBService.get_student_profile
GetStudentProfile(h) ==
    /\ handlers[h].pc = "start"
    /\ handlers' = [handlers EXCEPT ![h].pc = "read", ![h].profile = students_table]
    /\ UNCHANGED <<students_table, evaluator_vars, other_vars>>

\* check_and_award_achievements on the profile the handler read
Evaluate(h) ==
    /\ handlers[h].pc = "read"
    /\ LET profile == handlers[h].profile
       IN  handlers' = [handlers EXCEPT
               ![h].pc = "evaluated",
               ![h].unlocked = WithInstanceIds(h,
                   CheckAndAwardAchievements(handlers[h].event, profile,
                       profile.badges_earned, ACHIEVEMENT_DEFINITIONS))]
    /\ UNCHANGED <<students_table, evaluator_vars, other_vars>>

\* update_item with UpdateExpression "SET k = :k, ...": every named
\* attribute is overwritten, whatever the item holds now
SetAttributes(item, updates) ==
    [k \in (DOMAIN item) \cup (DOMAIN updates) |->
        IF k \in DOMAIN updates THEN updates[k] ELSE item[k]]

\* DynamoDBService.update_student_profile with the merged badge list
UpdateStudentProfile(h) ==
    /\ handlers[h].pc = "evaluated"
    /\ students_table' = SetAttributes(students_table,
           [badges_earned |-> handlers[h].profile.badges_earned
                                \o Types(handlers[h].unlocked)])
    /\ handlers' = [handlers EXCEPT ![h].pc = "written"]
    /\ UNCHANGED <<evaluator_vars, other_vars>>

\* update_student_profile catching ClientError and returning False
UpdateFails(h) ==
    /\ handlers[h].pc = "evaluated"
    /\ handlers' = [handlers EXCEPT ![h].pc = "failed"]
    /\ UNCHANGED <<students_table, evaluator_vars, other_vars>>

NextStore ==
    \E h \in Handlers :
        \/ GetStudentProfile(h)
        \/ Evaluate(h)
        \/ UpdateStudentProfile(h)
        \/ UpdateFails(h)

SpecStore == InitStore /\ [][NextStore]_vars

\* AchievementInstances created by a handler whose write went through
PersistedInstances ==
    UNION { {handlers[h].unlocked[i] : i \in 1..Len(handlers[h].unlocked)} :
              h \in {x \in DOMAIN handlers : handlers[x].pc = "written"} }


\* ---------------------------------------------------------------------
\* Properties
\* ---------------------------------------------------------------------
ReturnedTypes ==
    {newly_unlocked[i].achievement_type : i \in 1..Len(newly_unlocked)}

Counter(key) == Get(current_progress, key, IF key = "current_level" THEN 1 ELSE 0)

CatalogEntries == {ACHIEVEMENT_DEFINITIONS[i] : i \in 1..Len(ACHIEVEMENT_DEFINITIONS)}

CatalogPosition(type) ==
    CHOOSE i \in 1..Len(ACHIEVEMENT_DEFINITIONS) : ACHIEVEMENT_DEFINITIONS[i].type = type

CatalogEntry(type) == ACHIEVEMENT_DEFINITIONS[CatalogPosition(type)]

\* the counter a catalog entry's criteria name, and the snapshot key holding it
CriteriaMetric(entry) == CHOOSE m \in DOMAIN entry.criteria : m # "threshold"

MetricKey(metric) ==
    CASE metric = "words_learned"           -> "total_words_learned"
      [] metric = "lessons_completed"       -> "total_lessons_completed"
      [] metric = "consecutive_days"        -> "current_streak_days"
      [] metric = "perfect_grammar_quizzes" -> "perfect_quiz_count"
      [] metric = "fast_answers"            -> "fast_answer_count"
      [] metric = "high_score_quizzes"      -> "high_score_quiz_count"
      [] metric = "perfect_quizzes"         -> "perfect_quiz_count"
      [] metric = "level"                   -> "current_level"

MeetsCriteria(entry) ==
    Counter(MetricKey(CriteriaMetric(entry))) >= entry.criteria[CriteriaMetric(entry)]

\* the categories whose blocks the trigger runs
ActivatedCategories ==
    CASE trigger_event = "lesson_completed"     -> {"vocabulary", "reading"}
      [] trigger_event = "quiz_completed"       -> {"vocabulary", "accuracy"}
      [] trigger_event = "quiz_perfect"         ->
             IF GrammarTrigger(trigger_event, current_progress) THEN {"grammar"} ELSE {}
      [] trigger_event = "daily_streak_updated" -> {"streak"}
      [] trigger_event = "fast_answer"          -> {"speed"}
      [] trigger_event = "level_up"             -> {"level"}
      [] OTHER                                  -> {}

\* C1: for one student, over every interleaving of evaluations and profile
\* writes, at most one achievement instance is created and persisted per
\* achievement identifier.
C1_AtMostOneInstance ==
    \A a \in PersistedInstances, b \in PersistedInstances :
        a.achievement_type = b.achievement_type => a = b

\* C2: once the identifiers a first call returned are merged into the
\* earned list, a second call with the same trigger and snapshot returns
\* the empty list.
C2_Idempotence == pc = "rechecked" => newly_unlocked = <<>>

C2_Witness ==
    /\ pc = "rechecked"
    /\ trigger_event = "quiz_completed"
    /\ InList(AchievementType.WORD_COLLECTOR, already_earned_badges)
    /\ InList(AchievementType.PERFECTIONIST, already_earned_badges)

\* C3: with trigger and earned list fixed, a call on a snapshot whose every
\* counter is at least as large returns a superset of the identifiers.
C3_Monotonicity ==
    [][ ( /\ pc = "returned" /\ pc' = "returned"
          /\ trigger_event' = trigger_event
          /\ already_earned_badges' = already_earned_badges
          /\ DOMAIN current_progress' = DOMAIN current_progress
          /\ \A k \in DOMAIN current_progress :
                IF k \in NumericKeys
                THEN current_progress'[k] >= current_progress[k]
                ELSE current_progress'[k] = current_progress[k] )
        => ReturnedTypes \subseteq ReturnedTypes' ]_vars

C3_Witness ==
    /\ pc = "returned"
    /\ trigger_event = "quiz_completed"
    /\ Counter("last_quiz_score") = MaxScore
    /\ Counter("high_score_quiz_count") = 5
    /\ ReturnedTypes = {AchievementType.SHARPSHOOTER, AchievementType.ACE_STUDENT,
                        AchievementType.PERFECTIONIST}

\* C4: no returned identifier is in the earned list, and no identifier is
\* returned twice.
C4_NewAndDistinct ==
    pc = "returned" =>
        /\ \A i \in 1..Len(newly_unlocked) :
              ~InList(newly_unlocked[i].achievement_type, already_earned_badges)
        /\ \A i, j \in 1..Len(newly_unlocked) :
              newly_unlocked[i].achievement_type = newly_unlocked[j].achievement_type
                  => i = j

C4_Witness ==
    /\ pc = "returned"
    /\ trigger_event = "quiz_completed"
    /\ InList(AchievementType.SHARPSHOOTER, already_earned_badges)
    /\ Counter("last_quiz_score") = MaxScore
    /\ Counter("high_score_quiz_count") = 5
    /\ ReturnedTypes = {AchievementType.ACE_STUDENT, AchievementType.PERFECTIONIST}

\* C5 as stated: every achievement of an activated category is returned
\* exactly when the counter its catalog criteria name reaches the catalog
\* threshold and it is not earned; no other snapshot field gates it.
C5_ThresholdExactness_AsStated ==
    pc = "returned" =>
        \A entry \in CatalogEntries :
            entry.category \in ActivatedCategories =>
                ( entry.type \in ReturnedTypes
                    <=> ( /\ MeetsCriteria(entry)
                          /\ ~InList(entry.type, already_earned_badges) ) )

\* C5 amended: the same, except for two accuracy achievements:
\* sharpshooter_90 also needs a last quiz score of at least its criteria
\* threshold (90), and perfectionist_100 is returned exactly when the last
\* quiz score is 100 and it is not earned, whatever the perfect-quiz count.
C5_ThresholdExactness ==
    pc = "returned" =>
        \A entry \in CatalogEntries :
            entry.category \in ActivatedCategories =>
                ( entry.type \in ReturnedTypes
                    <=> ( /\ ~InList(entry.type, already_earned_badges)
                          /\ CASE entry.type = AchievementType.PERFECTIONIST ->
                                    Counter("last_quiz_score") = 100
                               [] entry.type = AchievementType.SHARPSHOOTER ->
                                    /\ MeetsCriteria(entry)
                                    /\ Counter("last_quiz_score") >= entry.criteria.threshold
                               [] OTHER -> MeetsCriteria(entry) ) )

C5_Witness ==
    /\ pc = "returned"
    /\ trigger_event = "lesson_completed"
    /\ already_earned_badges = <<>>
    /\ Counter("total_words_learned") = 50
    /\ Counter("total_lessons_completed") = 9
    /\ ReturnedTypes = {AchievementType.WORD_SPROUT, AchievementType.WORD_COLLECTOR,
                        AchievementType.FIRST_LESSON}

ReturnedCategories ==
    {newly_unlocked[i].category : i \in 1..Len(newly_unlocked)}

\* C6 as stated: the trigger alone fixes the categories that can unlock;
\* quiz_completed returns only accuracy achievements.
C6_TriggerCategories_AsStated ==
    pc = "returned" =>
        ReturnedCategories \subseteq
            CASE trigger_event = "lesson_completed"     -> {"vocabulary", "reading"}
              [] trigger_event = "quiz_perfect"         -> {"grammar"}
              [] trigger_event = "daily_streak_updated" -> {"streak"}
              [] trigger_event = "fast_answer"          -> {"speed"}
              [] trigger_event = "quiz_completed"       -> {"accuracy"}
              [] trigger_event = "level_up"             -> {"level"}
              [] OTHER                                  -> {}

\* C6 amended: quiz_completed returns only vocabulary or accuracy
\* achievements; the other triggers as stated.
C6_TriggerCategories ==
    pc = "returned" =>
        ReturnedCategories \subseteq
            CASE trigger_event = "lesson_completed"     -> {"vocabulary", "reading"}
              [] trigger_event = "quiz_perfect"         -> {"grammar"}
              [] trigger_event = "daily_streak_updated" -> {"streak"}
              [] trigger_event = "fast_answer"          -> {"speed"}
              [] trigger_event = "quiz_completed"       -> {"vocabulary", "accuracy"}
              [] trigger_event = "level_up"             -> {"level"}
              [] OTHER                                  -> {}

C6_Witness ==
    /\ pc = "returned"
    /\ trigger_event = "quiz_completed"
    /\ Counter("total_lessons_completed") = 250
    /\ Counter("total_words_learned") = 100
    /\ ReturnedCategories = {"vocabulary"}

\* C7: on quiz_completed a last quiz score of 100 unlocks
\* perfectionist_100 when it is not earned, whatever the perfect-quiz and
\* high-score-quiz counters, zero and missing included.
C7_PerfectScoreUnlocks ==
    ( /\ pc = "returned"
      /\ trigger_event = "quiz_completed"
      /\ Counter("last_quiz_score") = 100
      /\ ~InList(AchievementType.PERFECTIONIST, already_earned_badges) )
    => AchievementType.PERFECTIONIST \in ReturnedTypes

C7_Witness ==
    /\ pc = "returned"
    /\ trigger_event = "quiz_completed"
    /\ Counter("last_quiz_score") = 100
    /\ "perfect_quiz_count" \in DOMAIN current_progress
    /\ current_progress["perfect_quiz_count"] = 0
    /\ "high_score_quiz_count" \notin DOMAIN current_progress
    /\ AchievementType.PERFECTIONIST \in ReturnedTypes

\* the ordered progressions, one per category
Progressions ==
    { [i \in 1..Len(tiers) |-> tiers[i][2]] :
          tiers \in {VocabularyTiers, ReadingTiers, GrammarTiers, StreakTiers,
                     SpeedTiers, LevelTiers} }
    \cup { <<AchievementType.SHARPSHOOTER, AchievementType.ACE_STUDENT,
             AchievementType.PERFECTIONIST, AchievementType.CHAMPION,
             AchievementType.FLAWLESS>> }

HasNextTier(type) ==
    \E p \in Progressions : \E i \in 1..(Len(p) - 1) : p[i] = type

NextTier(type) ==
    LET p == CHOOSE p \in Progressions : InList(type, p)
    IN  p[Index(p, type) + 2]

\* C8: an unlocked achievement carries a progress-toward-next payload
\* exactly when it belongs to an ordered progression (vocabulary, reading,
\* streak, grammar, speed, accuracy, level) and is not its final tier.
C8_ProgressPayloadPresent ==
    pc = "returned" =>
        \A i \in 1..Len(newly_unlocked) :
            (newly_unlocked[i].progress_towards_next # None)
                <=> HasNextTier(newly_unlocked[i].achievement_type)

\* C9: a payload names the next tier of the progression, that tier's
\* catalog threshold as target, the snapshot counter as current, and
\* min(100, floor(100 * current / target)) as percentage.
C9_ProgressPayloadValues ==
    pc = "returned" =>
        \A i \in 1..Len(newly_unlocked) :
            LET payload == newly_unlocked[i].progress_towards_next
                type    == newly_unlocked[i].achievement_type
                next    == CatalogEntry(NextTier(type))
                key     == MetricKey(CriteriaMetric(next))
            IN  payload # None =>
                  /\ HasNextTier(type)
                  /\ payload.next_achievement = next.type
                  /\ payload.target = next.criteria[CriteriaMetric(next)]
                  /\ payload.current = Counter(key)
                  /\ payload.percentage
                        = Min(100, (100 * payload.current) \div payload.target)
                  /\ payload.percentage \in 0..100

\* C10: the returned achievements follow the order of their catalog
\* definitions, and within one progression ascending thresholds.
C10_CatalogOrder ==
    pc = "returned" =>
        \A i, j \in 1..Len(newly_unlocked) :
            i < j =>
                LET a == CatalogEntry(newly_unlocked[i].achievement_type)
                    b == CatalogEntry(newly_unlocked[j].achievement_type)
                IN  /\ CatalogPosition(a.type) < CatalogPosition(b.type)
                    /\ CriteriaMetric(a) = CriteriaMetric(b)
                          => a.criteria[CriteriaMetric(a)] < b.criteria[CriteriaMetric(b)]

C10_Witness ==
    /\ pc = "returned"
    /\ trigger_event = "lesson_completed"
    /\ already_earned_badges = <<>>
    /\ Counter("total_words_learned") = 55
    /\ Counter("total_lessons_completed") = 10
    /\ Types(newly_unlocked)
          = <<AchievementType.WORD_SPROUT, AchievementType.WORD_COLLECTOR,
              AchievementType.FIRST_LESSON, AchievementType.BOOKWORM>>


\* the snapshot with every absent counter set to zero
WithZeros(progress) ==
    [k \in (DOMAIN progress) \cup NumericKeys |->
        IF k \in DOMAIN progress THEN progress[k] ELSE 0]

\* C11: on every trigger and every snapshot with absent counters the call
\* returns normally, and returns what it returns on the same snapshot with
\* the absent counters set to zero; an empty snapshot with an empty earned
\* list returns the empty list.
C11_MissingCountersDefault ==
    pc # "input" =>
        /\ pc # "raised"
        /\ newly_unlocked
              = CheckAndAwardAchievements(trigger_event, WithZeros(current_progress),
                                          already_earned_badges, ACHIEVEMENT_DEFINITIONS)
        /\ (current_progress = EmptyDict /\ already_earned_badges = <<>>)
              => newly_unlocked = <<>>

C11_Witness ==
    /\ pc = "returned"
    /\ trigger_event = "quiz_completed"
    /\ DOMAIN current_progress = {"last_quiz_score"}
    /\ current_progress["last_quiz_score"] = MaxScore
    /\ already_earned_badges = <<>>
    /\ Types(newly_unlocked) = <<AchievementType.PERFECTIONIST>>

\* ---------------------------------------------------------------------
\* SpecCatalog: calls of check_and_award_achievements while the lookup of
\* one achievement definition returns {} (the entry is absent from
\* ACHIEVEMENT_DEFINITIONS)
\* ---------------------------------------------------------------------
\* ACHIEVEMENT_DEFINITIONS without the entries of some types
CatalogWithout(achievement_types) ==
    LET Present(definition) == definition.type \notin achievement_types
    IN  SelectSeq(ACHIEVEMENT_DEFINITIONS, Present)

\* snapshots of one counter, and of the two counters that have a
\* progress-to-next sequence
CatalogSnapshots ==
    UNION {Dicts({k}) : k \in ProgressKeys}
    \cup Dicts({"total_words_learned", "total_lessons_completed"})

InitCatalog ==
    /\ \E i \in 1..Len(ACHIEVEMENT_DEFINITIONS) :
          failed_lookups = {ACHIEVEMENT_DEFINITIONS[i].type}
    /\ EvaluatorIdle
    /\ StoreIdle
    /\ LevelingIdle
    /\ SectionIdle
    /\ PlanIdle
    /\ FlowIdle
    /\ AnalyzerIdle
    /\ FrameIdle

\* a call, on any trigger, snapshot and earned list
CheckWithFailedLookup ==
    /\ pc = "input"
    /\ \E event \in TriggerEvents, progress \in CatalogSnapshots, already \in EarnedLists :
          LET result == CheckAndAwardAchievements(event, progress, already,
                                                  CatalogWithout(failed_lookups))
          IN  /\ trigger_event' = event
              /\ current_progress' = progress
              /\ already_earned_badges' = already
              /\ IF Raised(result)
                 THEN /\ newly_unlocked' = <<>>
                      /\ pc' = "raised"
                 ELSE /\ newly_unlocked' = result
                      /\ pc' = "returned"
    /\ UNCHANGED <<store_vars, catalog_vars, leveling_vars, section_vars,
                   plan_vars, flow_vars,
                   analyzer_vars, frame_vars>>

NextCatalog == CheckWithFailedLookup

SpecCatalog == InitCatalog /\ [][NextCatalog]_vars

\* C12: when the lookup of one definition fails the call still returns
\* normally, and returns every unlocked candidate except the one whose own
\* definition is missing, also a candidate whose next tier is the missing
\* definition.
C12_FailedLookupSkipsOne ==
    (pc # "input" /\ failed_lookups # {}) =>
        /\ pc # "raised"
        /\ LET Kept(t) == t \notin failed_lookups
           IN  Types(newly_unlocked)
                  = SelectSeq(AchievementsToCheck(trigger_event, current_progress,
                                                  already_earned_badges), Kept)

\* ---------------------------------------------------------------------
\* models/constants.py: level progression
\* ---------------------------------------------------------------------
\* number of levels the threshold table lists
MaxLevel == 30

LEVEL_XP_THRESHOLDS ==
    <<0, 100, 250, 475, 813,
      1319, 2079, 3219, 4928, 7493,
      11339, 17109, 25763, 38745, 58217,
      87426, 131239, 196959, 295538, 443407,
      665211, 997916, 1496974, 2245561, 3368442,
      5052763, 7579245, 11368967, 17053551, 25580426>>

\* The doubles of 100 * (1.5 ** (level - 1)) for level in 1..30 are the
\* dyadic rationals 3^n / 2^n and 100 * 3^n / 2^n with n <= 29, whose
\* numerators stay below 2^53: each is represented exactly and no
\* operation rounds.  A value is [whole, frac, bits], standing for
\* whole + frac / 2^bits with 0 <= frac < 2^bits.
FloatOne == [whole |-> 1, frac |-> 0, bits |-> 0]

\* d * 1.5
TimesOneAndHalf(d) ==
    LET tripled == 3 * d.whole
        num     == (tripled % 2) * Pow2(d.bits) + 3 * d.frac
    IN  [whole |-> (tripled \div 2) + (num \div Pow2(d.bits + 1)),
         frac  |-> num % Pow2(d.bits + 1),
         bits  |-> d.bits + 1]

\* 1.5 ** n
RECURSIVE PowOneAndHalf(_)
PowOneAndHalf(n) == IF n = 0 THEN FloatOne ELSE TimesOneAndHalf(PowOneAndHalf(n - 1))

\* int(100 * d): the product is truncated toward zero
IntOfTimes100(d) ==
    LET half == Pow2(15)
    IN  100 * d.whole
        + (IF d.bits <= 15
           THEN (100 * d.frac) \div Pow2(d.bits)
           ELSE (100 * (d.frac \div half) + ((100 * (d.frac % half)) \div half))
                    \div Pow2(d.bits - 15))

calculate_xp_for_level(lvl) == IntOfTimes100(PowOneAndHalf(lvl - 1))

\* ---------------------------------------------------------------------
\* SpecLevels: the two sources of a level's threshold, each applied to a
\* level of the table
\* ---------------------------------------------------------------------
InitLevels ==
    /\ level \in 1..MaxLevel
    /\ xp_for_level = <<>>
    /\ xp_threshold = <<>>
    /\ EvaluatorIdle
    /\ StoreIdle
    /\ CatalogIntact
    /\ SectionIdle
    /\ PlanIdle
    /\ FlowIdle
    /\ AnalyzerIdle
    /\ FrameIdle

CalculateXpForLevel ==
    /\ xp_for_level = <<>>
    /\ xp_for_level' = <<calculate_xp_for_level(level)>>
    /\ UNCHANGED <<level, xp_threshold, evaluator_vars, store_vars, catalog_vars,
                   section_vars, plan_vars, flow_vars,
                   analyzer_vars, frame_vars>>

ReadThreshold ==
    /\ xp_threshold = <<>>
    /\ xp_threshold' = <<LEVEL_XP_THRESHOLDS[level]>>
    /\ UNCHANGED <<level, xp_for_level, evaluator_vars, store_vars, catalog_vars,
                   section_vars, plan_vars, flow_vars,
                   analyzer_vars, frame_vars>>

NextLevels == CalculateXpForLevel \/ ReadThreshold

SpecLevels == InitLevels /\ [][NextLevels]_vars

\* the largest level of the table whose threshold is at most xp
levelForXp(xp) ==
    CHOOSE l \in 1..MaxLevel :
        /\ LEVEL_XP_THRESHOLDS[l] <= xp
        /\ \A m \in 1..MaxLevel : LEVEL_XP_THRESHOLDS[m] <= xp => m <= l

\* C13: for every level of the table, the table entry equals
\* calculate_xp_for_level of that level.
C13_TableMatchesFormula ==
    (xp_for_level # <<>> /\ xp_threshold # <<>>) => xp_threshold[1] = xp_for_level[1]

\* C14: the level of calculate_xp_for_level(L) is L, and for L > 1 the
\* level of one XP less is below L.
C14_LevelRoundTrip ==
    xp_for_level # <<>> =>
        /\ levelForXp(xp_for_level[1]) = level
        /\ level > 1 => levelForXp(xp_for_level[1] - 1) < level

\* ---------------------------------------------------------------------
\* tools/section_generator.py
\* ---------------------------------------------------------------------
DifficultyLevel ==
    [BEGINNER |-> "beginner", INTERMEDIATE |-> "intermediate", ADVANCED |-> "advanced"]

IsNone(x) == "none" \in DOMAIN x

Range(list) == {list[i] : i \in 1..Len(list)}

\* list[:n]
Prefix(list, n) == SubSeq(list, 1, Min(n, Len(list)))

\* the lists list(set(...)) can return: the elements of the set, each
\* once, in an order the hash seed of the process decides
RECURSIVE ListsOfSet(_)
ListsOfSet(S) ==
    IF S = {} THEN {<<>>}
    ELSE UNION {{<<x>> \o rest : rest \in ListsOfSet(S \ {x})} : x \in S}

\* mutant: <= in place of < at the lowest boundary
AdjustDifficultyInclusive(plan_difficulty, quiz_score) ==
    IF quiz_score <= 50
    THEN DifficultyLevel.BEGINNER
    ELSE IF quiz_score < 70
    THEN (IF plan_difficulty = DifficultyLevel.ADVANCED
          THEN DifficultyLevel.INTERMEDIATE ELSE plan_difficulty)
    ELSE IF quiz_score >= 90
    THEN (IF plan_difficulty # DifficultyLevel.ADVANCED
          THEN DifficultyLevel.ADVANCED ELSE plan_difficulty)
    ELSE plan_difficulty

\* the if / elif / elif on quiz_score
AdjustDifficulty(plan_difficulty, quiz_score) ==
    IF quiz_score < 50
    THEN DifficultyLevel.BEGINNER
    ELSE IF quiz_score < 70
    THEN (IF plan_difficulty = DifficultyLevel.ADVANCED
          THEN DifficultyLevel.INTERMEDIATE ELSE plan_difficulty)
    ELSE IF quiz_score >= 90
    THEN (IF plan_difficulty # DifficultyLevel.ADVANCED
          THEN DifficultyLevel.ADVANCED ELSE plan_difficulty)
    ELSE plan_difficulty

\* mutant: every struggle is added, not the first two
AdjustSkillsAllStruggles(skill_areas, struggles) ==
    IF struggles # <<>>
    THEN ListsOfSet(Range(skill_areas \o struggles))
    ELSE {skill_areas}

\* the values adjusted_skills can take
AdjustSkills(skill_areas, struggles) ==
    IF struggles # <<>>
    THEN ListsOfSet(Range(skill_areas \o Prefix(struggles, 2)))
    ELSE {skill_areas}

\* _create_tutor_message: which of the three messages is built
CreateTutorMessage(index, total_sections, topic) ==
    LET section_num == index + 1
    IN  [message |-> IF section_num = 1 THEN "start"
                     ELSE IF section_num = total_sections THEN "final"
                     ELSE "middle",
         topic |-> topic,
         section_num |-> section_num]

\* lesson_plan.sections[section_index] for an index the list accepts
SectionAt(sections, index) ==
    IF index >= 0 THEN sections[index + 1] ELSE sections[Len(sections) + index + 1]

\* mutant: the first section is adapted too
SectionContentAdaptingFirst(plan, index, performance, lesson_ok, quiz_ok, adjusted_skills) ==
    LET section_plan == SectionAt(plan.sections, index)
        adapts       == ~IsNone(performance) /\ DOMAIN performance # {} /\ index >= 0
        adjusted_difficulty ==
            IF adapts
            THEN AdjustDifficulty(section_plan.difficulty, Get(performance, "quiz_score", 70))
            ELSE section_plan.difficulty
        lesson == [topic |-> section_plan.topic,
                   difficulty_level |-> IF lesson_ok THEN adjusted_difficulty
                                        ELSE section_plan.difficulty,
                   generated |-> lesson_ok]
        quiz   == [topic |-> section_plan.topic,
                   difficulty_level |-> IF quiz_ok THEN adjusted_difficulty
                                        ELSE section_plan.difficulty,
                   generated |-> quiz_ok]
    IN  [calls |->
            << [tool |-> "generate_lesson_content", topic |-> section_plan.topic,
                difficulty_level |-> adjusted_difficulty, focus_areas |-> adjusted_skills],
               [tool |-> "generate_adaptive_quiz", topic |-> section_plan.topic,
                difficulty_level |-> adjusted_difficulty, focus_areas |-> adjusted_skills] >>,
         returns |->
            [lesson |-> lesson,
             quiz |-> quiz,
             tutor_message |-> CreateTutorMessage(index, plan.total_sections,
                                                  section_plan.topic),
             section_info |-> [section_number |-> index + 1,
                               total_sections |-> plan.total_sections,
                               topic |-> section_plan.topic]]]

\* generate_section_content once the section is chosen: the generator
\* calls and the returned dict, for one outcome of each generator and one
\* order of the adjusted skills
SectionContent(plan, index, performance, lesson_ok, quiz_ok, adjusted_skills) ==
    LET section_plan == SectionAt(plan.sections, index)
        adapts       == ~IsNone(performance) /\ DOMAIN performance # {} /\ index > 0
        adjusted_difficulty ==
            IF adapts
            THEN AdjustDifficulty(section_plan.difficulty, Get(performance, "quiz_score", 70))
            ELSE section_plan.difficulty
        lesson == [topic |-> section_plan.topic,
                   difficulty_level |-> IF lesson_ok THEN adjusted_difficulty
                                        ELSE section_plan.difficulty,
                   generated |-> lesson_ok]
        quiz   == [topic |-> section_plan.topic,
                   difficulty_level |-> IF quiz_ok THEN adjusted_difficulty
                                        ELSE section_plan.difficulty,
                   generated |-> quiz_ok]
    IN  [calls |->
            << [tool |-> "generate_lesson_content", topic |-> section_plan.topic,
                difficulty_level |-> adjusted_difficulty, focus_areas |-> adjusted_skills],
               [tool |-> "generate_adaptive_quiz", topic |-> section_plan.topic,
                difficulty_level |-> adjusted_difficulty, focus_areas |-> adjusted_skills] >>,
         returns |->
            [lesson |-> lesson,
             quiz |-> quiz,
             tutor_message |-> CreateTutorMessage(index, plan.total_sections,
                                                  section_plan.topic),
             section_info |-> [section_number |-> index + 1,
                               total_sections |-> plan.total_sections,
                               topic |-> section_plan.topic]]]

\* the skill lists the call can hand to the generators
AdjustedSkillLists(plan, index, performance) ==
    LET section_plan == SectionAt(plan.sections, index)
    IN  IF ~IsNone(performance) /\ DOMAIN performance # {} /\ index > 0
        THEN AdjustSkills(section_plan.skill_areas, Get(performance, "struggles", <<>>))
        ELSE {section_plan.skill_areas}

\* ---------------------------------------------------------------------
\* Inputs of generate_section_content
\* ---------------------------------------------------------------------
SkillAreas == {"vocabulary", "grammar", "spelling"}

\* largest section index tried, on either side of zero
MaxIndex == 4

\* longest struggles list
MaxStruggles == 3

SectionIndexes == (0 - MaxIndex)..MaxIndex

PerformanceScores == {0, 42, 49, 50, 69, 70, 89, 90, MaxScore}

StrugglesLists == UNION {[1..n -> SkillAreas] : n \in 0..MaxStruggles}

Performances ==
    {None, EmptyDict}
    \cup {[quiz_score |-> s] : s \in PerformanceScores}
    \cup {[struggles |-> t] : t \in StrugglesLists}
    \cup {[quiz_score |-> s, struggles |-> t] : s \in PerformanceScores, t \in StrugglesLists}

\* SectionPlan: difficulty tier and a skill-tag set of one or two tags
SectionShapes ==
    << [difficulty |-> DifficultyLevel.BEGINNER,     skill_areas |-> <<"vocabulary">>],
       [difficulty |-> DifficultyLevel.INTERMEDIATE, skill_areas |-> <<"grammar">>],
       [difficulty |-> DifficultyLevel.ADVANCED,     skill_areas |-> <<"vocabulary", "grammar">>],
       [difficulty |-> DifficultyLevel.BEGINNER,     skill_areas |-> <<"spelling", "vocabulary">>],
       [difficulty |-> DifficultyLevel.INTERMEDIATE, skill_areas |-> <<"vocabulary">>],
       [difficulty |-> DifficultyLevel.ADVANCED,     skill_areas |-> <<"grammar">>],
       [difficulty |-> DifficultyLevel.BEGINNER,     skill_areas |-> <<"vocabulary", "grammar">>],
       [difficulty |-> DifficultyLevel.INTERMEDIATE, skill_areas |-> <<"spelling", "vocabulary">>],
       [difficulty |-> DifficultyLevel.ADVANCED,     skill_areas |-> <<"vocabulary">>] >>

SectionPlanOf(number, shape) ==
    [section_number |-> number,
     topic          |-> <<"topic", number>>,
     difficulty     |-> shape.difficulty,
     skill_areas    |-> shape.skill_areas]

\* LessonPlan of three SectionPlans: every shape occurs at every position
LessonPlans ==
    {[sections |-> [i \in 1..3 |->
                       SectionPlanOf(i, SectionShapes[((k + i - 2) % Len(SectionShapes)) + 1])],
      total_sections |-> 3,
      status |-> "active",
      current_section |-> 0] : k \in 1..Len(SectionShapes)}

\* ---------------------------------------------------------------------
\* SpecSection: one call of generate_section_content
\* ---------------------------------------------------------------------
InitSection ==
    /\ lesson_plan \in LessonPlans
    /\ section_index = 0
    /\ previous_section_performance = None
    /\ generator_calls = <<>>
    /\ section_content = None
    /\ EvaluatorIdle
    /\ StoreIdle
    /\ CatalogIntact
    /\ LevelingIdle
    /\ PlanIdle
    /\ FlowIdle
    /\ AnalyzerIdle
    /\ FrameIdle

GenerateSectionContent ==
    /\ IsNone(section_content)
    /\ \E index \in SectionIndexes, performance \in Performances :
          /\ section_index' = index
          /\ previous_section_performance' = performance
          /\ IF index >= Len(lesson_plan.sections)
             THEN /\ section_content' = [raised |-> "ValueError"]
                  /\ generator_calls' = <<>>
             ELSE IF index < 0 - Len(lesson_plan.sections)
             THEN /\ section_content' = [raised |-> "IndexError"]
                  /\ generator_calls' = <<>>
             ELSE \E lesson_ok \in BOOLEAN, quiz_ok \in BOOLEAN,
                     adjusted_skills \in AdjustedSkillLists(lesson_plan, index, performance) :
                     LET done == SectionContent(lesson_plan, index, performance,
                                                lesson_ok, quiz_ok, adjusted_skills)
                     IN  /\ section_content' = done.returns
                         /\ generator_calls' = done.calls
    /\ UNCHANGED <<lesson_plan, evaluator_vars, store_vars, catalog_vars, leveling_vars,
                   plan_vars, flow_vars,
                   analyzer_vars, frame_vars>>

NextSection == GenerateSectionContent

SpecSection == InitSection /\ [][NextSection]_vars

\* the call has returned or raised
SectionCalled == ~IsNone(section_content)

SectionRaised == "raised" \in DOMAIN section_content

\* a previous performance is supplied for a section after the first
Adapting ==
    /\ SectionCalled
    /\ ~SectionRaised
    /\ section_index > 0
    /\ ~IsNone(previous_section_performance)
    /\ DOMAIN previous_section_performance # {}

\* C15: for a section after the first with a previous score, the
\* difficulty handed to the generators is beginner below 50; from 50 and
\* below 70 intermediate if the plan says advanced, else the plan's; from
\* 70 and below 90 the plan's; from 90 advanced.
C15_DifficultyTable ==
    (Adapting /\ "quiz_score" \in DOMAIN previous_section_performance) =>
        LET planned == lesson_plan.sections[section_index + 1].difficulty
            score   == previous_section_performance.quiz_score
        IN  \A c \in 1..Len(generator_calls) :
               LET used == generator_calls[c].difficulty_level
               IN  /\ score < 50 => used = DifficultyLevel.BEGINNER
                   /\ (50 <= score /\ score < 70) =>
                         used = IF planned = DifficultyLevel.ADVANCED
                                THEN DifficultyLevel.INTERMEDIATE ELSE planned
                   /\ (70 <= score /\ score < 90) => used = planned
                   /\ score >= 90 => used = DifficultyLevel.ADVANCED

C15_Witness ==
    /\ Adapting
    /\ section_index = 2
    /\ previous_section_performance = [quiz_score |-> 50]
    /\ lesson_plan.sections[3].difficulty = DifficultyLevel.ADVANCED
    /\ Len(generator_calls) = 2
    /\ generator_calls[1].difficulty_level = DifficultyLevel.INTERMEDIATE
    /\ generator_calls[2].difficulty_level = DifficultyLevel.INTERMEDIATE

\* C16: for a section after the first with a previous performance, the
\* skill tags handed to the generators are the plan's tags together with
\* the first two struggles, each tag once.
C16_SkillTagUnion ==
    Adapting =>
        LET planned   == lesson_plan.sections[section_index + 1].skill_areas
            struggles == Get(previous_section_performance, "struggles", <<>>)
        IN  \A c \in 1..Len(generator_calls) :
               LET used == generator_calls[c].focus_areas
               IN  /\ Range(used) = Range(planned) \cup Range(Prefix(struggles, 2))
                   /\ Len(used) = Cardinality(Range(used))

C16_Witness ==
    /\ Adapting
    /\ lesson_plan.sections[section_index + 1].skill_areas = <<"vocabulary">>
    /\ previous_section_performance
          = [quiz_score |-> 42, struggles |-> <<"grammar", "grammar", "spelling">>]
    /\ generator_calls[1].difficulty_level = DifficultyLevel.BEGINNER
    /\ Range(generator_calls[1].focus_areas) = {"vocabulary", "grammar"}

\* C17: for a section index below 0 or from 3 up, the call raises and
\* nothing is generated.
C17_IndexOutOfRangeRaises ==
    (SectionCalled /\ (section_index < 0 \/ section_index >= 3)) =>
        /\ SectionRaised
        /\ generator_calls = <<>>

\* ---------------------------------------------------------------------
\* tools/plan_generator.py
\* ---------------------------------------------------------------------
\* SUBJECT_SKILL_AREAS[Subject.ENGLISH]
EnglishSkillAreas ==
    <<"vocabulary", "grammar", "reading_comprehension", "writing", "spelling",
      "punctuation", "literary_analysis">>

\* DifficultyLevel(value) succeeds
IsDifficulty(value) ==
    value \in {DifficultyLevel.BEGINNER, DifficultyLevel.INTERMEDIATE,
               DifficultyLevel.ADVANCED}

\* a parsed JSON object
JsonObject(fields) == [json |-> "object", fields |-> fields]

\* a parsed JSON array
JsonArray(items) == [json |-> "array", items |-> items]

\* focus_areas[idx] if idx < len(focus_areas) else skill_areas[idx]
FocusOrSkill(idx, focus_areas, skill_areas) ==
    IF idx < Len(focus_areas) THEN focus_areas[idx + 1] ELSE skill_areas[idx + 1]

\* _create_fallback_plan
CreateFallbackPlan(focus_areas, skill_areas, diagnostic) ==
    LET difficulty == Get(diagnostic, "recommended_difficulty", DifficultyLevel.INTERMEDIATE)
        s0 == FocusOrSkill(0, focus_areas, skill_areas)
        s1 == FocusOrSkill(1, focus_areas, skill_areas)
        s2 == FocusOrSkill(2, focus_areas, skill_areas)
    IN  JsonArray(
          << JsonObject([topic |-> <<"Foundation", s0>>,
                         difficulty |-> difficulty,
                         skill_areas |-> <<s0>>]),
             JsonObject([topic |-> <<"Application", s1>>,
                         difficulty |-> IF difficulty = DifficultyLevel.BEGINNER
                                        THEN DifficultyLevel.INTERMEDIATE
                                        ELSE DifficultyLevel.ADVANCED,
                         skill_areas |-> <<s1>>]),
             JsonObject([topic |-> <<"Mastery", s2>>,
                         difficulty |-> IF difficulty # DifficultyLevel.BEGINNER
                                        THEN DifficultyLevel.ADVANCED
                                        ELSE DifficultyLevel.INTERMEDIATE,
                         skill_areas |-> <<s2>>]) >>)

\* the except branch of the loop: the fallback SectionPlan, or the
\* ValueError of DifficultyLevel(...) leaving the function
FallbackSection(idx, focus_areas, skill_areas, diagnostic) ==
    LET difficulty == Get(diagnostic, "recommended_difficulty", DifficultyLevel.INTERMEDIATE)
    IN  IF IsDifficulty(difficulty)
        THEN [section_number |-> idx + 1,
              topic          |-> <<"English Language Arts - Section", idx + 1>>,
              difficulty     |-> difficulty,
              skill_areas    |-> <<FocusOrSkill(idx, focus_areas, skill_areas)>>]
        ELSE [raised |-> "ValueError"]

\* one round of the loop over sections_data[:3]
CreateSection(idx, section_data, focus_areas, skill_areas, diagnostic) ==
    IF /\ section_data.json = "object"
       /\ IsDifficulty(Get(section_data.fields, "difficulty", DifficultyLevel.INTERMEDIATE))
    THEN [section_number |-> idx + 1,
          topic          |-> Get(section_data.fields, "topic", <<"Section", idx + 1>>),
          difficulty     |-> Get(section_data.fields, "difficulty",
                                 DifficultyLevel.INTERMEDIATE),
          skill_areas    |-> Get(section_data.fields, "skill_areas",
                                 SubSeq(focus_areas, idx + 1, Min(idx + 1, Len(focus_areas))))]
    ELSE FallbackSection(idx, focus_areas, skill_areas, diagnostic)

\* LessonPlan(...): the model object keeps the fields it is given
LessonPlanOf(sections) ==
    [sections |-> sections,
     total_sections |-> 3,
     status |-> "active",
     current_section |-> 0]

\* generate_lesson_plan: the LessonPlan returned, or the exception raised
GenerateLessonPlanResult(diagnostic, response) ==
    LET skill_areas   == EnglishSkillAreas
        focus_areas   == Get(diagnostic, "focus_areas", Prefix(skill_areas, 3))
        sections_data == IF response.status = "error"
                         THEN CreateFallbackPlan(focus_areas, skill_areas, diagnostic)
                         ELSE response.value
    IN  IF sections_data.json # "array"
        THEN [raised |-> "TypeError"]
        ELSE LET sections ==
                   [i \in 1..Min(3, Len(sections_data.items)) |->
                       CreateSection(i - 1, sections_data.items[i], focus_areas,
                                     skill_areas, diagnostic)]
             IN  IF \E i \in 1..Len(sections) : "raised" \in DOMAIN sections[i]
                 THEN [raised |-> "ValueError"]
                 ELSE LessonPlanOf(sections)

\* ---------------------------------------------------------------------
\* Inputs of generate_lesson_plan
\* ---------------------------------------------------------------------
\* longest JSON array the Content Generator returns
MaxEntries == 4

DiagnosticFocusAreas ==
    { <<>>, <<"grammar">>, <<"grammar", "spelling", "vocabulary">> }

DiagnosticResults ==
    {EmptyDict}
    \cup {[focus_areas |-> f] : f \in DiagnosticFocusAreas}
    \cup {[recommended_difficulty |-> d] :
             d \in {DifficultyLevel.BEGINNER, DifficultyLevel.ADVANCED}}
    \cup {[focus_areas |-> f, recommended_difficulty |-> d] :
             f \in DiagnosticFocusAreas,
             d \in {DifficultyLevel.BEGINNER, DifficultyLevel.INTERMEDIATE,
                    DifficultyLevel.ADVANCED}}

\* entries of the returned array: well formed, without any key, with a
\* difficulty DifficultyLevel rejects, and not an object at all
PlanEntries ==
    { JsonObject([topic |-> <<"topic", 1>>, difficulty |-> DifficultyLevel.BEGINNER,
                  skill_areas |-> <<"grammar">>]),
      JsonObject([topic |-> <<"topic", 2>>, difficulty |-> DifficultyLevel.ADVANCED,
                  skill_areas |-> <<"vocabulary", "spelling">>]),
      JsonObject(EmptyDict),
      JsonObject([topic |-> <<"topic", 3>>, difficulty |-> "hard",
                  skill_areas |-> <<"grammar">>]),
      [json |-> "string"] }

\* the call failed or its text did not parse; a JSON array; a JSON object
PlanResponses ==
    {[status |-> "error"]}
    \cup {[status |-> "ok", value |-> JsonArray(items)] :
             items \in UNION {[1..n -> PlanEntries] : n \in 0..MaxEntries}}
    \cup {[status |-> "ok", value |-> JsonObject(EmptyDict)]}

\* ---------------------------------------------------------------------
\* SpecPlan: one call of generate_lesson_plan
\* ---------------------------------------------------------------------
InitPlan ==
    /\ diagnostic_results \in DiagnosticResults
    /\ plan_response = None
    /\ lesson_plan = None
    /\ section_index = 0
    /\ previous_section_performance = None
    /\ generator_calls = <<>>
    /\ section_content = None
    /\ EvaluatorIdle
    /\ StoreIdle
    /\ CatalogIntact
    /\ LevelingIdle
    /\ FlowIdle
    /\ AnalyzerIdle
    /\ FrameIdle

GenerateLessonPlan ==
    /\ IsNone(plan_response)
    /\ \E response \in PlanResponses :
          /\ plan_response' = response
          /\ lesson_plan' = GenerateLessonPlanResult(diagnostic_results, response)
    /\ UNCHANGED <<diagnostic_results, section_index, previous_section_performance,
                   generator_calls, section_content, evaluator_vars, store_vars,
                   catalog_vars, leveling_vars, flow_vars,
                   analyzer_vars, frame_vars>>

NextPlan == GenerateLessonPlan

SpecPlan == InitPlan /\ [][NextPlan]_vars

\* generate_lesson_plan returned a LessonPlan
PlanReturned ==
    /\ ~IsNone(plan_response)
    /\ "raised" \notin DOMAIN lesson_plan

StudentProfileFields ==
    {"student_id", "name", "email", "grade", "interests", "learning_profile",
     "strengths", "focus_areas", "preferences", "total_xp", "current_level",
     "current_streak_days", "longest_streak_days", "last_active_date",
     "total_lessons_completed", "total_quizzes_completed", "average_quiz_score",
     "total_words_learned", "badges_earned", "created_at", "last_active",
     "updated_at", "ttl"}

\* the declared fields without a default
RequiredProfileFields == {"student_id", "name", "email", "grade", "learning_profile"}

\* StudentProfile(**profile_data): the declared keys of the item, or a
\* ValidationError when a required one is missing
StudentProfile(profile_data) ==
    IF RequiredProfileFields \subseteq DOMAIN profile_data
    THEN [k \in (DOMAIN profile_data) \cap StudentProfileFields |-> profile_data[k]]
    ELSE [raised |-> "ValidationError"]

\* the call raised instead of returning
HasRaised(x) == "raised" \in DOMAIN x

\* Subject(subject_str)
Subject == {"english", "math", "science", "history"}

\* the item handle_save_onboarding writes (put_item adds the key)
OnboardedProfile ==
    [student_id |-> "student", name |-> "student", email |-> "student@temp.com",
     grade |-> 7, subject |-> "english", interests |-> <<>>,
     survey_completed |-> TRUE, survey_interests |-> <<>>, survey_grade |-> 7,
     learning_profile |-> [current_level |-> "intermediate",
                           diagnostic_completed |-> FALSE],
     strengths |-> <<>>, focus_areas |-> <<>>,
     preferences |-> [font_size |-> "medium", theme |-> "light"],
     total_xp |-> 0, current_level |-> 1,
     created_at |-> 0, last_active |-> 0, updated_at |-> 0]

\* update_item with "SET k = :k, ...": writes the attributes, creating
\* the item under its key when there is none
UpdateItem(item, updates) ==
    SetAttributes([k \in (DOMAIN item) \cup {"student_id"} |->
                      IF k \in DOMAIN item THEN item[k] ELSE "student"], updates)

\* DynamoDBService.update_student_profile: the item afterwards; a
\* ClientError leaves it as it was
UpdatedProfile(item, updates, update_ok) ==
    IF update_ok THEN UpdateItem(item, updates) ELSE item

\* DynamoDBService.save_lesson_plan
SavedLessonPlan(item, plan_id, plan_data, now, update_ok) ==
    UpdatedProfile(item, [current_lesson_plan |-> plan_data,
                          current_lesson_plan_id |-> plan_id,
                          updated_at |-> now], update_ok)

\* DynamoDBService.get_active_lesson_plan
GetActiveLessonPlan(item) ==
    IF DOMAIN item = {} THEN None ELSE Get(item, "current_lesson_plan", None)

\* the quiz_result dict both handlers build
QuizResultItem(data, default_total, now) ==
    LET evaluation == Get(data, "evaluation", EmptyDict)
    IN  [quiz_result_id  |-> Get(data, "quiz_id", None),
         student_id      |-> "student",
         questions       |-> Get(data, "questions", <<>>),
         score_percentage |-> Get(evaluation, "scorePercentage", 0),
         total_questions |-> Get(evaluation, "totalQuestions", default_total),
         correct_answers |-> Get(evaluation, "correctCount", 0),
         timestamp       |-> now]

\* DynamoDBService.save_quiz_result: put_item replaces the item of the
\* same id; it fails without a key value or on a ClientError
SavedQuizResult(table, quiz_result, put_ok) ==
    IF put_ok /\ ~IsNone(quiz_result.quiz_result_id)
    THEN [id \in (DOMAIN table) \cup {quiz_result.quiz_result_id} |->
             IF id = quiz_result.quiz_result_id THEN quiz_result ELSE table[id]]
    ELSE table

\* DynamoDBService.get_quiz_result
GetQuizResult(table, quiz_id, get_ok) ==
    IF get_ok /\ quiz_id \in DOMAIN table THEN table[quiz_id] ELSE None

\* the analysis handle_diagnostic_complete hands to the plan generator:
\* what analyze_diagnostic_results makes of the saved quiz, or the
\* default analysis when the quiz cannot be read back
DiagnosticAnalyses(saved_quiz) ==
    IF IsNone(saved_quiz)
    THEN {[overall_score |-> 50, focus_areas |-> <<>>]}
    ELSE DiagnosticResults

\* the section number a quiz id names: 'section_{n}' or 'section-{n}' in it
NamesSection(quiz_id, section_number) ==
    quiz_id.kind = "section" /\ quiz_id.number = section_number

\* DynamoDBService.get_most_recent_section_quiz: the results of the
\* section sorted by timestamp, newest first; None without one
MostRecentSectionQuiz(table, section_number) ==
    LET found == {id \in DOMAIN table : NamesSection(id, section_number)}
    IN  IF found = {} THEN {None}
        ELSE {table[id] : id \in {i \in found :
                 \A j \in found : table[j].timestamp <= table[i].timestamp}}

\* the except branch of the request handlers
ErrorResponse(message) == [error |-> message, success |-> FALSE]

\* the except branch of present_next_section
SectionLoadError ==
    [action_type |-> "conversation", response_status |-> "system_error",
     message |-> "Section load error", success |-> FALSE]

\* ---------------------------------------------------------------------
\* Requests
\* ---------------------------------------------------------------------
\* largest section_number a section_complete request carries
MaxSectionNumber == 4

\* latest second of the clock
MaxClock == 1

SectionNumbers == 0..MaxSectionNumber

\* quiz ids of the client: what they are for and the section they name
QuizIds == { [kind |-> "diagnostic", number |-> 0], [kind |-> "section", number |-> 1] }

Evaluations ==
    { EmptyDict, [scorePercentage |-> 67, correctCount |-> 2, totalQuestions |-> 3] }

\* the time of a request: the clock does not run backwards
Times == {t \in {clock, clock + 1} : t <= MaxClock}

WithQuizId(data) ==
    {data} \cup {[k \in (DOMAIN data) \cup {"quiz_id"} |->
                     IF k = "quiz_id" THEN id ELSE data[k]] : id \in QuizIds}

SectionCompleteData ==
    UNION {WithQuizId([section_number |-> n, evaluation |-> e]) :
              n \in SectionNumbers, e \in Evaluations}

DiagnosticCompleteData ==
    UNION {WithQuizId(d) :
              d \in {[evaluation |-> e] : e \in Evaluations}
                    \cup {[evaluation |-> e, subject |-> s] :
                             e \in Evaluations, s \in {"english", "latin"}}}

InitFlow ==
    /\ students_table \in {EmptyDict, OnboardedProfile}
    /\ handlers = <<>>
    /\ FlowIdle
    /\ EvaluatorIdle
    /\ CatalogIntact
    /\ LevelingIdle
    /\ SectionIdle
    /\ PlanIdle
    /\ AnalyzerIdle
    /\ FrameIdle

\* handle_diagnostic_complete
HandleDiagnosticComplete ==
    \E data \in DiagnosticCompleteData, now \in Times, put_ok \in BOOLEAN :
       LET quiz_id == Get(data, "quiz_id", None)
           subject_str == Get(data, "subject", "english")
           saved == SavedQuizResult(quiz_results_table,
                                    QuizResultItem(data, 5, now), put_ok)
           profile_data == students_table
           profile == StudentProfile(profile_data)
       IN  /\ clock' = now
           /\ IF IsNone(quiz_id)
              THEN /\ last_response' = ErrorResponse("Missing quiz_id")
                   /\ UNCHANGED <<quiz_results_table, students_table>>
              ELSE /\ quiz_results_table' = saved
                   /\ IF DOMAIN profile_data = {}
                      THEN /\ last_response' = ErrorResponse("Profile not found")
                           /\ UNCHANGED students_table
                      ELSE IF HasRaised(profile)
                      THEN /\ last_response' = ErrorResponse(profile.raised)
                           /\ UNCHANGED students_table
                      ELSE IF subject_str \notin Subject
                      THEN /\ last_response' = ErrorResponse("ValueError")
                           /\ UNCHANGED students_table
                      ELSE IF "subject" \notin DOMAIN profile
                      \* generate_lesson_plan reads student_profile.subject
                      THEN /\ last_response' = ErrorResponse("AttributeError")
                           /\ UNCHANGED students_table
                      ELSE \E get_ok \in BOOLEAN, generated \in PlanResponses,
                              save_ok \in BOOLEAN, update_ok \in BOOLEAN :
                           \E analysis \in DiagnosticAnalyses(
                                               GetQuizResult(saved, quiz_id, get_ok)) :
                              LET plan == GenerateLessonPlanResult(analysis, generated)
                              IN  IF HasRaised(plan)
                                  THEN /\ last_response' = ErrorResponse(plan.raised)
                                       /\ UNCHANGED students_table
                                  ELSE /\ students_table' =
                                             UpdatedProfile(
                                                SavedLessonPlan(students_table, "plan", plan,
                                                                now, save_ok),
                                                [current_lesson_plan_id |-> "plan",
                                                 current_section_index |-> 0], update_ok)
                                       /\ last_response' =
                                             IF Len(plan.sections) < 3
                                             THEN ErrorResponse("IndexError")
                                             ELSE [action_type |-> "plan_created",
                                                   lesson_plan |-> plan,
                                                   success |-> TRUE]
           /\ UNCHANGED <<handlers, evaluator_vars, catalog_vars, leveling_vars,
                          section_vars, plan_vars, analyzer_vars, frame_vars>>

\* handle_section_complete
HandleSectionComplete ==
    \E data \in SectionCompleteData, now \in Times,
       put_ok \in BOOLEAN, update_ok \in BOOLEAN :
       LET section_num == data.section_number
           evaluation == Get(data, "evaluation", EmptyDict)
           performance ==
               [section_number  |-> section_num,
                quiz_score      |-> Get(evaluation, "scorePercentage", 0),
                correct_answers |-> Get(evaluation, "correctCount", 0),
                total_questions |-> Get(evaluation, "totalQuestions", 3)]
       IN  /\ clock' = now
           /\ quiz_results_table' =
                 SavedQuizResult(quiz_results_table, QuizResultItem(data, 3, now), put_ok)
           /\ students_table' =
                 UpdatedProfile(students_table,
                                [current_section_index |-> section_num], update_ok)
           /\ last_response' =
                 [action_type |-> "section_summary",
                  summary |-> [xp_earned |-> 50 + Get(evaluation, "correctCount", 0) * 10,
                               performance |-> performance],
                  success |-> TRUE]
           /\ UNCHANGED <<handlers, evaluator_vars, catalog_vars, leveling_vars,
                          section_vars, plan_vars, analyzer_vars, frame_vars>>

\* TutorAgent.present_next_section, the tool the agent runs for a
\* request_section
PresentNextSection ==
    \E now \in Times :
       LET profile_data == students_table
           profile == StudentProfile(profile_data)
           plan == GetActiveLessonPlan(students_table)
       IN  /\ clock' = now
           /\ IF \/ DOMAIN profile_data = {}
                 \/ HasRaised(profile)
                 \/ IsNone(plan)
                 \* profile.current_section_index
                 \/ "current_section_index" \notin DOMAIN profile
              THEN last_response' = SectionLoadError
              ELSE LET index == profile.current_section_index
                   IN  \E recent_quiz \in
                             IF index > 0
                             THEN MostRecentSectionQuiz(quiz_results_table, index)
                             ELSE {None} :
                          LET previous_performance ==
                                  IF IsNone(recent_quiz) THEN None
                                  ELSE [section_number  |-> index,
                                        quiz_score      |-> recent_quiz.score_percentage,
                                        correct_answers |-> recent_quiz.correct_answers,
                                        total_questions |-> recent_quiz.total_questions]
                          IN  IF \/ index >= Len(plan.sections)
                                 \/ index < 0 - Len(plan.sections)
                              THEN last_response' = SectionLoadError
                              ELSE \E lesson_ok \in BOOLEAN, quiz_ok \in BOOLEAN,
                                      adjusted_skills \in
                                         AdjustedSkillLists(plan, index, previous_performance) :
                                      LET section == SectionContent(plan, index,
                                                        previous_performance, lesson_ok,
                                                        quiz_ok, adjusted_skills).returns
                                      IN  last_response' =
                                             [action_type |-> "present_lesson",
                                              response_status |-> "success",
                                              lesson_content |-> section.lesson,
                                              quiz_content |-> section.quiz,
                                              success |-> TRUE]
           /\ UNCHANGED <<students_table, quiz_results_table, handlers, evaluator_vars,
                          catalog_vars, leveling_vars, section_vars, plan_vars, analyzer_vars, frame_vars>>

NextFlow ==
    \/ HandleDiagnosticComplete
    \/ HandleSectionComplete
    \/ PresentNextSection

SpecFlow == InitFlow /\ [][NextFlow]_vars

\* the student's item holds a current-section cursor
HasCursor == "current_section_index" \in DOMAIN students_table

\* the stored current-section cursor
Cursor == students_table.current_section_index

\* section_complete requests handled one after the other
SectionCompleteHandled ==
    /\ ~IsNone(last_response)
    /\ Get(last_response, "action_type", "") = "section_summary"

\* C18: across every sequence of section_complete requests the stored
\* current-section cursor never decreases, and each handled
\* section_complete raises it by exactly one.
C18_CursorAdvancesByOne ==
    [][ HasCursor =>
           /\ HasCursor'
           /\ Cursor' >= Cursor
           /\ (SectionCompleteHandled' => Cursor' = Cursor + 1) ]_vars

\* C19: after any sequence of diagnostic_complete, section_complete and
\* request_section operations the stored current-section cursor is
\* within 0..2.
C19_CursorInPlan == HasCursor => Cursor \in 0..2

\* ---------------------------------------------------------------------
\* SpecProfile: every operation on the profile store, on a student whose
\* item may already hold experience points.
\* ---------------------------------------------------------------------
\* GradeLevel
GradeLevel == {6, 7, 8}

\* grades an onboarding request carries
Grades == {7, 9}

\* total_xp of the items the store holds at the start: a new student's,
\* and a student's who has earned points
StoredXp == {0, 150}

\* profile_data of handle_save_onboarding
OnboardingProfileData(grade, now) ==
    [name |-> "student", email |-> "student@temp.com",
     grade |-> grade, subject |-> "english", interests |-> <<>>,
     survey_completed |-> TRUE, survey_interests |-> <<>>, survey_grade |-> grade,
     learning_profile |-> [current_level |-> "intermediate",
                           diagnostic_completed |-> FALSE],
     strengths |-> <<>>, focus_areas |-> <<>>,
     preferences |-> [font_size |-> "medium", theme |-> "light"],
     total_xp |-> 0, current_level |-> 1,
     created_at |-> now, last_active |-> now, updated_at |-> now]

\* profile_data of TutorAgent.save_onboarding_data
OnboardingToolProfileData(grade, now) ==
    [name |-> "student", email |-> "student@temp.com",
     grade |-> grade, subject |-> "english", interests |-> <<>>,
     survey_completed |-> TRUE, survey_interests |-> <<>>, survey_grade |-> grade,
     learning_profile |-> [current_level |-> "intermediate",
                           diagnostic_completed |-> FALSE],
     strengths |-> <<>>, focus_areas |-> <<>>,
     preferences |-> [font_size |-> "medium", theme |-> "light",
                      audio_enabled |-> FALSE, notifications_enabled |-> TRUE],
     total_xp |-> 0, current_level |-> 1,
     current_streak_days |-> 0, longest_streak_days |-> 0,
     total_lessons_completed |-> 0, total_quizzes_completed |-> 0,
     average_quiz_score |-> 0, total_words_learned |-> 0, badges_earned |-> <<>>,
     created_at |-> now, last_active |-> now, updated_at |-> now]

\* DynamoDBService.save_student_profile: put_item replaces the whole
\* item by the key and profile_data; a ClientError leaves it as it was
SavedStudentProfile(item, profile_data, put_ok) ==
    IF put_ok
    THEN [k \in (DOMAIN profile_data) \cup {"student_id"} |->
             IF k = "student_id" THEN "student" ELSE profile_data[k]]
    ELSE item

\* generate_overall_summary: the figures of the summary
OverallSummary(all_section_performances) ==
    LET n == Len(all_section_performances)
        Sum[i \in 0..n] ==
            IF i = 0 THEN [score |-> 0, correct |-> 0, total |-> 0]
            ELSE [score   |-> Sum[i - 1].score + all_section_performances[i].quiz_score,
                  correct |-> Sum[i - 1].correct + all_section_performances[i].correct_answers,
                  total   |-> Sum[i - 1].total + all_section_performances[i].total_questions]
    IN  IF n = 0
        THEN [total_correct |-> 0, total_questions |-> 0,
              performance_level |-> "developing"]
        ELSE [total_correct |-> Sum[n].correct, total_questions |-> Sum[n].total,
              performance_level |->
                  IF Sum[n].score >= 85 * n THEN "excellent"
                  ELSE IF Sum[n].score >= 70 * n THEN "good"
                  ELSE "developing"]

\* the stored items at the start: none, or an onboarded student's
InitProfile ==
    /\ \E xp \in StoredXp :
          students_table \in
             {EmptyDict, [OnboardedProfile EXCEPT !.total_xp = xp]}
    /\ handlers = <<>>
    /\ FlowIdle
    /\ EvaluatorIdle
    /\ CatalogIntact
    /\ LevelingIdle
    /\ SectionIdle
    /\ PlanIdle
    /\ AnalyzerIdle
    /\ FrameIdle

\* handle_save_onboarding
HandleSaveOnboarding ==
    \E grade \in Grades, now \in Times, put_ok \in BOOLEAN :
       /\ clock' = now
       /\ students_table' =
             SavedStudentProfile(students_table, OnboardingProfileData(grade, now), put_ok)
       /\ last_response' = [action_type |-> "conversation", success |-> put_ok,
                            message |-> "Onboarding complete"]
       /\ UNCHANGED <<quiz_results_table, handlers, evaluator_vars, catalog_vars,
                      leveling_vars, section_vars, plan_vars, analyzer_vars, frame_vars>>

\* TutorAgent.save_onboarding_data, the tool the agent runs for
\* onboarding answers
SaveOnboardingData ==
    \E grade \in Grades, now \in Times, put_ok \in BOOLEAN :
       /\ clock' = now
       /\ IF grade \notin GradeLevel
          THEN /\ last_response' = [action_type |-> "conversation",
                                    response_status |-> "system_error",
                                    message |-> "Database error", success |-> FALSE]
               /\ UNCHANGED students_table
          ELSE /\ students_table' =
                     SavedStudentProfile(students_table,
                                         OnboardingToolProfileData(grade, now), put_ok)
               /\ last_response' =
                     IF put_ok
                     THEN [action_type |-> "conversation",
                           response_status |-> "success",
                           message |-> "Onboarding complete", success |-> TRUE]
                     ELSE [action_type |-> "conversation",
                           response_status |-> "system_error",
                           message |-> "Database error", success |-> FALSE]
       /\ UNCHANGED <<quiz_results_table, handlers, evaluator_vars, catalog_vars,
                      leveling_vars, section_vars, plan_vars, analyzer_vars, frame_vars>>

\* handle_lesson_complete
HandleLessonComplete ==
    \E now \in Times :
       LET profile_data == students_table
           profile == StudentProfile(profile_data)
           plan_data == GetActiveLessonPlan(students_table)
       IN  /\ clock' = now
           /\ IF DOMAIN profile_data = {}
              THEN last_response' = ErrorResponse("Student profile not found")
              ELSE IF HasRaised(profile)
              THEN last_response' = ErrorResponse(profile.raised)
              ELSE IF IsNone(plan_data)
              THEN last_response' = ErrorResponse("Lesson plan not found")
              ELSE \E quiz1 \in MostRecentSectionQuiz(quiz_results_table, 1),
                      quiz2 \in MostRecentSectionQuiz(quiz_results_table, 2),
                      quiz3 \in MostRecentSectionQuiz(quiz_results_table, 3) :
                      LET Performance(n, quiz) ==
                              IF IsNone(quiz) THEN <<>>
                              ELSE << [section_number  |-> n,
                                       quiz_score      |-> quiz.score_percentage,
                                       correct_answers |-> quiz.correct_answers,
                                       total_questions |-> quiz.total_questions] >>
                      IN  last_response' =
                             [action_type |-> "overall_summary",
                              summary_data |->
                                  OverallSummary(Performance(1, quiz1)
                                                 \o Performance(2, quiz2)
                                                 \o Performance(3, quiz3)),
                              success |-> TRUE]
           /\ UNCHANGED <<students_table, quiz_results_table, handlers, evaluator_vars,
                          catalog_vars, leveling_vars, section_vars, plan_vars, analyzer_vars, frame_vars>>

NextProfile ==
    \/ HandleSaveOnboarding
    \/ SaveOnboardingData
    \/ HandleDiagnosticComplete
    \/ HandleSectionComplete
    \/ HandleLessonComplete

SpecProfile == InitProfile /\ [][NextProfile]_vars

\* the student's item holds a total XP
HasTotalXp == "total_xp" \in DOMAIN students_table

Quotient(num, den) == [num |-> num, den |-> den]

\* sum(f(x) for x in list)
RECURSIVE SumOf(_)
SumOf(numbers) ==
    IF numbers = <<>> THEN 0 ELSE Head(numbers) + SumOf(Tail(numbers))

\* list[-3:]
LastThree(list) ==
    IF Len(list) <= 3 THEN list ELSE SubSeq(list, Len(list) - 2, Len(list))

\* q.get("score_percentage", 0) for each record
ScoresOf(quizzes) == [i \in 1..Len(quizzes) |-> Get(quizzes[i], "score_percentage", 0)]

\* the scores of the records whose lowered topic holds the word
ScoresAbout(quizzes, word) ==
    ScoresOf(SelectSeq(quizzes,
                 LAMBDA q : Find(Lower(Get(q, "topic", <<>>)), word) >= 0))

\* mutant: a difference of exactly 10 counts as a change
ScoreTrendInclusive(recent_quizzes_) ==
    IF Len(recent_quizzes_) >= 3
    THEN LET recent_scores == ScoresOf(LastThree(recent_quizzes_))
             first_sum == recent_scores[1] + recent_scores[2]
             last_score == recent_scores[3]
         IN  IF 2 * last_score >= first_sum + 20 THEN "improving"
             ELSE IF 2 * last_score <= first_sum - 20 THEN "declining"
             ELSE "stable"
    ELSE "insufficient_data"

\* score_trend; first_avg is first_sum / 2, so the comparisons with
\* first_avg + 10 and first_avg - 10 are taken on the doubles
ScoreTrend(recent_quizzes_) ==
    IF Len(recent_quizzes_) >= 3
    THEN LET recent_scores == ScoresOf(LastThree(recent_quizzes_))
             first_sum == recent_scores[1] + recent_scores[2]
             last_score == recent_scores[3]
         IN  IF 2 * last_score > first_sum + 20 THEN "improving"
             ELSE IF 2 * last_score < first_sum - 20 THEN "declining"
             ELSE "stable"
    ELSE "insufficient_data"

\* learning_velocity
LearningVelocity(recent_lessons_) ==
    IF recent_lessons_ # <<>>
    THEN LET total == SumOf([i \in 1..Len(recent_lessons_) |->
                               Get(recent_lessons_[i], "time_spent_seconds", 0)])
         IN  IF total < 240 * Len(recent_lessons_) THEN "fast"
             ELSE IF total > 600 * Len(recent_lessons_) THEN "slow"
             ELSE "moderate"
    ELSE "unknown"

\* the topics appended to topics_mastered
MasteredTopics(recent_quizzes_) ==
    {Get(recent_quizzes_[i], "topic", <<>>) :
        i \in {j \in 1..Len(recent_quizzes_) :
                  Get(recent_quizzes_[j], "score_percentage", 0) >= 90}}

\* the topics appended to topics_struggling
StrugglingTopics(recent_quizzes_) ==
    {Get(recent_quizzes_[i], "topic", <<>>) :
        i \in {j \in 1..Len(recent_quizzes_) :
                  Get(recent_quizzes_[j], "score_percentage", 0) < 70}}

\* strengths_identified and areas_for_improvement
FocusAreaInsights(recent_quizzes_) ==
    LET vocab_scores == ScoresAbout(recent_quizzes_, <<"v","o","c","a","b","u","l","a","r","y">>)
        grammar_scores == ScoresAbout(recent_quizzes_, <<"g","r","a","m","m","a","r">>)
        Mean80(scores) == SumOf(scores) >= 80 * Len(scores)
        Strength(scores, area) ==
            IF scores # <<>> /\ Mean80(scores) THEN <<area>> ELSE <<>>
        Improve(scores, area) ==
            IF scores # <<>> /\ ~Mean80(scores) THEN <<area>> ELSE <<>>
    IN  [strengths_identified |->
             Strength(vocab_scores, "vocabulary") \o Strength(grammar_scores, "grammar"),
         areas_for_improvement |->
             Improve(vocab_scores, "vocabulary") \o Improve(grammar_scores, "grammar")]

\* estimated_readiness: min(100, avg_quiz_score), or 50.0 without quizzes
EstimatedReadiness(recent_quizzes_) ==
    IF recent_quizzes_ # <<>>
    THEN LET total == SumOf(ScoresOf(recent_quizzes_))
         IN  IF 100 * Len(recent_quizzes_) <= total
             THEN Quotient(100, 1)
             ELSE Quotient(total, Len(recent_quizzes_))
    ELSE Quotient(50, 1)

\* analyze_learning_progress: the analyses it can return, one for each
\* order list(set(...)) gives the two topic lists
AnalyzeLearningProgress(recent_lessons_, recent_quizzes_) ==
    { LET insights == FocusAreaInsights(recent_quizzes_)
          n == Len(recent_lessons_)
          completed == Cardinality({i \in 1..n :
                           Get(recent_lessons_[i], "completion_percentage", 0) = 100})
          total_time == SumOf([i \in 1..n |->
                           Get(recent_lessons_[i], "time_spent_seconds", 0)])
      IN  [score_trend |-> ScoreTrend(recent_quizzes_),
           learning_velocity |-> LearningVelocity(recent_lessons_),
           topics_mastered |-> topics_mastered,
           topics_struggling |-> topics_struggling,
           next_recommended_topic |->
               IF topics_struggling # <<>> THEN <<topics_struggling[1]>>
               ELSE IF Len(topics_mastered) >= 3 THEN <<"New advanced topic">>
               ELSE <<"Continue current curriculum">>,
           difficulty_adjustment |->
               IF topics_struggling # <<>> THEN "maintain"
               ELSE IF Len(topics_mastered) >= 3 THEN "increase"
               ELSE "maintain",
           topics_to_review |-> topics_struggling,
           strengths_identified |-> insights.strengths_identified,
           areas_for_improvement |-> insights.areas_for_improvement,
           estimated_grade_level_readiness |-> EstimatedReadiness(recent_quizzes_),
           avg_time_per_lesson_minutes |->
               IF n > 0 THEN Quotient(total_time, n * 60) ELSE Quotient(0, 1),
           completion_rate |->
               IF n > 0 THEN Quotient(completed * 100, n) ELSE Quotient(0, 1)]
      : topics_mastered \in ListsOfSet(MasteredTopics(recent_quizzes_)),
        topics_struggling \in ListsOfSet(StrugglingTopics(recent_quizzes_)) }

\* ---------------------------------------------------------------------
\* SpecAnalyzer: one call of analyze_learning_progress on each window
\* ---------------------------------------------------------------------
\* longest window of quiz records
MaxQuizzes == 4

GrammarTopic == <<"G","r","a","m","m","a","r">>

VocabularyTopic == <<"v","o","c","a","b","u","l","a","r","y">>

\* quiz records: without any key, on one topic with scores on both sides
\* of 70 and 90, and with scores outside 0..100
QuizRecords ==
    {EmptyDict}
    \cup {[score_percentage |-> s, topic |-> GrammarTopic] : s \in {60, 70, 80, 90}}
    \cup {[score_percentage |-> s, topic |-> VocabularyTopic] : s \in {0 - 20, 90, 120}}

QuizWindows == UNION {[1..n -> QuizRecords] : n \in 0..MaxQuizzes}

\* lesson windows: none, a fast one, a slow unfinished one, a mixed one
LessonWindows ==
    { <<>>,
      << [time_spent_seconds |-> 200, completion_percentage |-> 100] >>,
      << [time_spent_seconds |-> 700, completion_percentage |-> 50] >>,
      << [time_spent_seconds |-> 240, completion_percentage |-> 100], EmptyDict,
         [time_spent_seconds |-> 960] >> }

InitAnalyzer ==
    /\ recent_lessons \in LessonWindows
    /\ recent_quizzes \in QuizWindows
    /\ progress_analysis = None
    /\ EvaluatorIdle
    /\ StoreIdle
    /\ CatalogIntact
    /\ LevelingIdle
    /\ SectionIdle
    /\ PlanIdle
    /\ FlowIdle
    /\ FrameIdle

Analyze ==
    /\ IsNone(progress_analysis)
    /\ progress_analysis' \in AnalyzeLearningProgress(recent_lessons, recent_quizzes)
    /\ UNCHANGED <<recent_lessons, recent_quizzes, evaluator_vars, store_vars,
                   catalog_vars, leveling_vars, section_vars, plan_vars, flow_vars,
                   frame_vars>>

NextAnalyzer == Analyze

SpecAnalyzer == InitAnalyzer /\ [][NextAnalyzer]_vars

Analyzed == ~IsNone(progress_analysis)

\* the score of the record i places before the end of the window
ScoreFromEnd(i) ==
    Get(recent_quizzes[Len(recent_quizzes) - i], "score_percentage", 0)

\* C22: with fewer than three quiz records the trend is
\* insufficient_data; otherwise it is improving when the last score is
\* more than 10 points above the mean of the two before it, declining
\* when it is more than 10 points below, and stable otherwise.
C22_ScoreTrend ==
    Analyzed =>
        IF Len(recent_quizzes) < 3
        THEN progress_analysis.score_trend = "insufficient_data"
        ELSE LET twice_difference ==
                     2 * ScoreFromEnd(0) - (ScoreFromEnd(1) + ScoreFromEnd(2))
             IN  progress_analysis.score_trend =
                     CASE twice_difference > 20 -> "improving"
                       [] twice_difference < 0 - 20 -> "declining"
                       [] OTHER -> "stable"

\* a window of more than three records whose last score is exactly 10
\* above the mean of the two before it
C22_Witness ==
    /\ Analyzed
    /\ Len(recent_quizzes) > 3
    /\ 2 * ScoreFromEnd(0) - (ScoreFromEnd(1) + ScoreFromEnd(2)) = 20
    /\ progress_analysis.score_trend = "stable"

\* C23: topics_mastered and topics_struggling are duplicate-free and
\* disjoint.
C23_MasteredStrugglingDisjoint ==
    Analyzed =>
        LET mastered == progress_analysis.topics_mastered
            struggling == progress_analysis.topics_struggling
        IN  /\ Cardinality(Range(mastered)) = Len(mastered)
            /\ Cardinality(Range(struggling)) = Len(struggling)
            /\ Range(mastered) \cap Range(struggling) = {}

\* C24: estimated_grade_level_readiness is within 0..100, equals the
\* mean quiz score when that mean lies in 0..100, and is 50 without
\* quizzes.
C24_ReadinessClamped ==
    Analyzed =>
        LET readiness == progress_analysis.estimated_grade_level_readiness
            total == SumOf(ScoresOf(recent_quizzes))
            n == Len(recent_quizzes)
        IN  /\ 0 <= readiness.num
            /\ readiness.num <= 100 * readiness.den
            /\ n = 0 => readiness.num = 50 * readiness.den
            /\ (n > 0 /\ 0 <= total /\ total <= 100 * n)
                  => readiness.num * n = total * readiness.den

\* ---------------------------------------------------------------------
\* SpecFrame: check_and_award_achievements on the objects of its caller.
\* Python hands the snapshot dict and the earned list over by reference
\* and the catalog is a module-level dict, so a store into any of them
\* would be seen by the caller after the call.
\* ---------------------------------------------------------------------
\* mutant: the call marks what it unlocked in the caller's earned list
ObjectsAfterCallMarkingEarned(event, progress, already, definitions) ==
    LET result == CheckAndAwardAchievements(event, progress, already, definitions)
    IN  [returns |-> result,
         current_progress |-> progress,
         already_earned_badges |->
             IF Raised(result) THEN already ELSE already \o Types(result),
         definitions |-> definitions]

\* what the call returns and the three objects after it.  The function
\* and _calculate_progress_to_next only read them (.get, in, [...]);
\* every append goes to the local lists achievements_to_check and
\* newly_unlocked, and each Achievement is built from values
ObjectsAfterCall(event, progress, already, definitions) ==
    LET result == CheckAndAwardAchievements(event, progress, already, definitions)
    IN  [returns |-> result,
         current_progress |-> progress,
         already_earned_badges |-> already,
         definitions |-> definitions]

InitFrame ==
    /\ FrameIdle
    /\ EvaluatorIdle
    /\ StoreIdle
    /\ CatalogIntact
    /\ LevelingIdle
    /\ SectionIdle
    /\ PlanIdle
    /\ FlowIdle
    /\ AnalyzerIdle

\* a call on any trigger, snapshot and earned list, with the catalog as
\* loaded
CallOnObjects ==
    /\ IsNone(call_objects)
    /\ \E event \in TriggerEvents, progress \in Snapshots, already \in EarnedLists :
          /\ call_arguments' = [trigger_event |-> event,
                                current_progress |-> progress,
                                already_earned_badges |-> already,
                                definitions |-> ACHIEVEMENT_DEFINITIONS]
          /\ call_objects' = ObjectsAfterCall(event, progress, already,
                                              ACHIEVEMENT_DEFINITIONS)
    /\ UNCHANGED <<evaluator_vars, store_vars, catalog_vars, leveling_vars,
                   section_vars, plan_vars, flow_vars, analyzer_vars>>

NextFrame == CallOnObjects

SpecFrame == InitFrame /\ [][NextFrame]_vars

CalledSectionPlan == SectionAt(lesson_plan.sections, section_index)

\* C26: when the section index is 0 or no previous performance is
\* supplied, the difficulty and the skill tags handed to content
\* generation equal the plan's, whatever the supplied performance holds.
C26_FirstSectionNotAdapted ==
    (SectionCalled /\ ~SectionRaised
       /\ (section_index = 0 \/ IsNone(previous_section_performance)))
    => \A i \in 1..Len(generator_calls) :
          /\ generator_calls[i].difficulty_level = CalledSectionPlan.difficulty
          /\ generator_calls[i].focus_areas = CalledSectionPlan.skill_areas

\* the first section generated with a failing score and struggles
\* supplied, on a plan that is not at beginner difficulty
C26_Witness ==
    /\ SectionCalled
    /\ ~SectionRaised
    /\ section_index = 0
    /\ ~IsNone(previous_section_performance)
    /\ Get(previous_section_performance, "quiz_score", 70) < 50
    /\ Get(previous_section_performance, "struggles", <<>>) # <<>>
    /\ CalledSectionPlan.difficulty # DifficultyLevel.BEGINNER
    /\ Len(generator_calls) = 2

\* C28: for every valid section index the call returns a lesson and a
\* quiz without raising whether each generator succeeds or fails, and
\* the returned lesson and quiz both carry the adapted difficulty.
C28_FallbacksCarryAdaptedDifficulty ==
    (SectionCalled /\ section_index \in 0..(Len(lesson_plan.sections) - 1))
    => /\ ~SectionRaised
       /\ LET adapted ==
                  IF Adapting
                  THEN AdjustDifficulty(CalledSectionPlan.difficulty,
                           Get(previous_section_performance, "quiz_score", 70))
                  ELSE CalledSectionPlan.difficulty
          IN  /\ section_content.lesson.difficulty_level = adapted
              /\ section_content.quiz.difficulty_level = adapted

\* the progressions of the catalog that share one metric: the six
\* threshold blocks, high_score_quizzes and perfect_quizzes
ThresholdProgressions ==
    { [i \in 1..Len(tiers) |-> tiers[i][2]] :
          tiers \in {VocabularyTiers, ReadingTiers, GrammarTiers, StreakTiers,
                     SpeedTiers, LevelTiers} }

HighScoreProgression == <<AchievementType.SHARPSHOOTER, AchievementType.ACE_STUDENT>>

PerfectQuizProgression ==
    <<AchievementType.PERFECTIONIST, AchievementType.CHAMPION, AchievementType.FLAWLESS>>

\* every tier below a returned tier is earned or returned with it
TierClosed(progression) ==
    \A i \in 1..Len(progression) :
        progression[i] \in ReturnedTypes =>
            \A j \in 1..(i - 1) :
                \/ progression[j] \in ReturnedTypes
                \/ InList(progression[j], already_earned_badges)

\* C27 as stated: for every progression that shares one metric, whenever
\* a tier is returned, every lower tier of the same progression is
\* already earned or returned in the same call.
C27_TierClosure_AsStated ==
    pc # "input" =>
        \A p \in ThresholdProgressions \cup {HighScoreProgression, PerfectQuizProgression} :
            TierClosed(p)

\* C27 amended: the closure holds for words learned, lessons completed,
\* streak days, perfect grammar quizzes, fast answers and level, and
\* between the 5 and 20 perfect-quiz tiers; the lowest accuracy tiers
\* (sharpshooter, perfectionist) are gated by the last quiz score and
\* can be missing below a returned tier.
C27_TierClosure ==
    pc # "input" =>
        \A p \in ThresholdProgressions
                 \cup {<<AchievementType.CHAMPION, AchievementType.FLAWLESS>>} :
            TierClosed(p)

\* the 100-word tier returned with the 50-word tier next to it and the
\* 10-word tier already earned
C27_Witness ==
    /\ pc = "returned"
    /\ AchievementType.WORD_WIZARD \in ReturnedTypes
    /\ AchievementType.WORD_COLLECTOR \in ReturnedTypes
    /\ InList(AchievementType.WORD_SPROUT, already_earned_badges)

\* the catalog entries of category special, and the others
SpecialTypes == {e.type : e \in {d \in CatalogEntries : d.category = "special"}}

NonSpecialTypes == {e.type : e \in CatalogEntries} \ SpecialTypes

\* snapshots of at most two counters, enough for every unlock condition
TwoKeySnapshots ==
    UNION {Dicts(keys) : keys \in {ks \in SUBSET ProgressKeys : Cardinality(ks) <= 2}}

\* what check_and_award_achievements returns over all triggers and these
\* snapshots for a student who has earned nothing
ReturnableTypes ==
    UNION { LET result == CheckAndAwardAchievements(event, progress, <<>>,
                                                    ACHIEVEMENT_DEFINITIONS)
            IN  {result[i].achievement_type : i \in 1..Len(result)}
            : event \in TriggerEvents, progress \in TwoKeySnapshots }

\* C30: the catalog achievements check_and_award_achievements can return
\* are exactly the entries whose category is not special: each of them
\* is returned for some input, and no call returns a special one.
C30_ReturnableAreNonSpecial ==
    /\ ReturnedTypes \subseteq NonSpecialTypes
    /\ ReturnableTypes = NonSpecialTypes

\* the last level tier returned to a student who holds a special
\* achievement
C30_Witness ==
    /\ pc = "returned"
    /\ AchievementType.LEVEL_30 \in ReturnedTypes
    /\ InList(AchievementType.EARLY_BIRD, already_earned_badges)

\* section_complete for section k was handled as the last request
SectionHandled(k) ==
    /\ SectionCompleteHandled
    /\ HasCursor
    /\ Cursor = k

\* C29: after section_complete for section k (k in 1..2) has been
\* handled, the next request_section answers with the generated
\* section k+1 (a present_lesson response carrying its lesson and quiz,
\* adapted from the performance of section k), whatever quiz identifier
\* the request carried and whether or not the quiz result was saved.
C29_NextSectionPresented ==
    [][ \A k \in 1..2 :
           (SectionHandled(k) /\ PresentNextSection)
              => Get(last_response', "action_type", "") = "present_lesson" ]_vars
=============================================================================
